---------------------------- MODULE Spec2Model ----------------------------
(***************************************************************************)
(* A model of the PyBon back end: the builder of the symbolic intermediate *)
(* code (IntermediateCode.fromSyntaxTree), the peephole Optimizer, the     *)
(* code generator (IntermediateCode.compile: expansion, address            *)
(* resolution, help-register allocation) and the Bonsai register machine   *)
(* (INC, DEC, TST, JMP, HLT) the generated program runs on.                *)
(***************************************************************************)
EXTENDS Integers, Sequences, FiniteSets, TLC

(***************************************************************************)
(* Bounds of the model.                                                    *)
(***************************************************************************)
\* largest initial value of a user register
MaxInit == 2
\* largest constant literal of a generated source program
MaxConst == 2
\* a register of a running machine or interpreter never grows beyond this
MaxVal == 12

(***************************************************************************)
(* Syntax tree nodes (syntactic_analyzer.ASTNode).  val is the node's      *)
(* string, num the integer a CONSTANT's string denotes, text the           *)
(* characters of a DOCSTRING.                                              *)
(***************************************************************************)
ASTNode(typ, val, num, children, decorators, text) ==
    [typ |-> typ, val |-> val, num |-> num, children |-> children,
     decorators |-> decorators, text |-> text]

ConstNode(n) == ASTNode("CONSTANT", "", n, <<>>, {}, <<>>)
RegNode(r) == ASTNode("REGISTER", r, 0, <<>>, {}, <<>>)
SignNode(e) == ASTNode("SIGN", "-", 0, <<e>>, {}, <<>>)
SumNode(terms) == ASTNode("ARITHMETIC_OPERATOR", "+", 0, terms, {}, <<>>)
BlockNode(stmts) == ASTNode("BLOCK", "", 0, stmts, {}, <<>>)
LabelNode(l) ==
    ASTNode("LABEL", "", 0, <<ASTNode("LABEL_ID", l, 0, <<>>, {}, <<>>)>>, {}, <<>>)
GotoNode(l) ==
    ASTNode("GOTO", "", 0, <<ASTNode("LABEL_ID", l, 0, <<>>, {}, <<>>)>>, {}, <<>>)
HaltNode == ASTNode("HALT", "halt", 0, <<>>, {}, <<>>)
DocNode(chars) == ASTNode("DOCSTRING", "", 0, <<>>, {}, chars)
AssignNode(op, deco, dest, rhs) ==
    ASTNode("ASSIGNMENT", op, 0, <<RegNode(dest), rhs>>, {deco}, <<>>)
BranchNode(cmp, e1, e2, ifBlock, elseBlock) ==
    ASTNode("BRANCH", "", 0,
            <<ASTNode("COMPARISON", cmp, 0, <<e1, e2>>, {}, <<>>),
              BlockNode(ifBlock), BlockNode(elseBlock)>>, {}, <<>>)

(***************************************************************************)
(* Symbolic instructions and operands (the namedtuples Instruction and     *)
(* Operand).  An operand's val is a name (REGISTER, LABEL_IDENTIFIER) or a *)
(* number (HELP_REGISTER id, CONSTANT value); None is typ "NONE".          *)
(***************************************************************************)
Operand(typ, val, num) == [typ |-> typ, val |-> val, num |-> num]
None == Operand("NONE", "", 0)
Register(r) == Operand("REGISTER", r, 0)
HelpRegister(h) == Operand("HELP_REGISTER", "", h)
Constant(n) == Operand("CONSTANT", "", n)
LabelRef(l) == Operand("LABEL_IDENTIFIER", l, 0)
Instruction(opcode, op1, op2) == [opcode |-> opcode, op1 |-> op1, op2 |-> op2]

\* Operand(node.typ, node.val) of a CONSTANT or REGISTER node
NodeOperand(node) == Operand(node.typ, node.val, node.num)

JumpOpcodes == {"jmp", "jg", "jge", "jl", "jle", "je", "jne"}
CondJumpOpcodes == JumpOpcodes \ {"jmp"}

\* the conditional jump the builder picks for a comparison operator
BranchOpcode(cmp) ==
    CASE cmp = ">" -> "jg"
      [] cmp = ">=" -> "jge"
      [] cmp = "<" -> "jl"
      [] cmp = "<=" -> "jle"
      [] cmp = "==" -> "je"
      [] cmp = "!=" -> "jne"

(***************************************************************************)
(* Dictionaries.  A symbol table is a function on its keys; a dictionary   *)
(* whose iteration order the code depends on (the help-register scopes,    *)
(* sorted with a stable sort) is the sequence of its <<key, value>> pairs  *)
(* in insertion order.                                                     *)
(***************************************************************************)
DictSet(d, k, v) == [x \in (DOMAIN d) \cup {k} |-> IF x = k THEN v ELSE d[x]]

PairSet(ps, k, v) ==
    IF \E j \in 1..Len(ps) : ps[j][1] = k
    THEN [j \in 1..Len(ps) |-> IF ps[j][1] = k THEN <<k, v>> ELSE ps[j]]
    ELSE Append(ps, <<k, v>>)

\* names of the labels a source program may declare
UserLabels == {".a", ".b"}
\* the builder's label names ".IF_{}".format(ifCount), ".ENDIF_{}".format(ifCount)
\* ".IF_{}".format(0): the same label for every branch
IfLabelShared(k) == ".IF_" \o ToString(0)

IfLabel(k) == ".IF_" \o ToString(k)
EndifLabel(k) == ".ENDIF_" \o ToString(k)
\* more branches than any generated program holds
MaxBranches == 3
\* label[0] == ".": the names of the model that start with the label marker
IsLabel(name) ==
    \/ name \in UserLabels
    \/ \E k \in 0..MaxBranches : name = IfLabel(k) \/ name = EndifLabel(k)

(***************************************************************************)
(* IntermediateCode.fromSyntaxTree.  The builder's fields are threaded     *)
(* through the traversal as one record.                                    *)
(***************************************************************************)
Emit(b, instr) == [b EXCEPT !.instructions = Append(@, instr)]

RECURSIVE AppendTerms(_, _, _, _, _)
\* the loop of calculateArithmeticExpression over node.children[i..]
AppendTerms(b, children, i, baseOperand, mode) ==
    IF i > Len(children) THEN b
    ELSE LET child == children[i]
             instr == IF child.val = "-"
                      THEN Instruction(mode[2], baseOperand, NodeOperand(child.children[1]))
                      ELSE Instruction(mode[1], baseOperand, NodeOperand(child))
         IN AppendTerms(Emit(b, instr), children, i + 1, baseOperand, mode)

calculateArithmeticExpression(b, node, baseOperand, mode) ==
    IF node.typ \in {"CONSTANT", "REGISTER"}
    THEN Emit(b, Instruction(mode[1], baseOperand, NodeOperand(node)))
    ELSE AppendTerms(b, node.children, 1, baseOperand, mode)

\* getArithmeticOperand returns the operand; the builder after the call is
\* getArithmeticOperandState
getArithmeticOperand(b, node) ==
    IF node.typ \in {"CONSTANT", "REGISTER"}
    THEN NodeOperand(node)
    ELSE HelpRegister(b.helpRegisterCount)

getArithmeticOperandState(b, node) ==
    IF node.typ \in {"CONSTANT", "REGISTER"}
    THEN b
    ELSE calculateArithmeticExpression(
             [b EXCEPT !.helpRegisterCount = @ + 1],
             node, HelpRegister(b.helpRegisterCount), <<"add", "sub">>)

\* mov op, Constant("0") and the scope entry, when op is a help register
ResetHelpRegister(b, op) ==
    IF op.typ = "HELP_REGISTER"
    THEN LET b1 == Emit(b, Instruction("mov", op, Constant(0)))
         IN [b1 EXCEPT !.helpRegisterScopes =
                 PairSet(@, op.num, Len(b1.instructions))]
    ELSE b

\* node.val.replace("\r\n", "\n").replace("\n", ";") on the characters of a
\* docstring
RECURSIVE ReplaceCRLF(_)
ReplaceCRLF(chars) ==
    IF chars = <<>> THEN <<>>
    ELSE IF Len(chars) >= 2 /\ chars[1] = "\r" /\ chars[2] = "\n"
         THEN <<"\n">> \o ReplaceCRLF(SubSeq(chars, 3, Len(chars)))
         ELSE <<chars[1]>> \o ReplaceCRLF(Tail(chars))

CommentOf(chars) ==
    LET c == ReplaceCRLF(chars)
    IN [j \in 1..Len(c) |-> IF c[j] = "\n" THEN ";" ELSE c[j]]

RECURSIVE traverseTree(_, _)
RECURSIVE traverseChildren(_, _, _)
traverseChildren(b, children, i) ==
    IF i > Len(children) THEN b
    ELSE traverseChildren(traverseTree(b, children[i]), children, i + 1)

traverseTree(b, node) ==
    IF node.typ = "BLOCK" THEN traverseChildren(b, node.children, 1)
    ELSE IF node.typ = "LABEL"
    THEN [b EXCEPT !.symbolTable =
              DictSet(@, node.children[1].val, Len(b.instructions))]
    ELSE IF node.typ = "GOTO"
    THEN Emit(b, Instruction("jmp", LabelRef(node.children[1].val), None))
    ELSE IF node.typ = "HALT"
    THEN Emit(b, Instruction("hlt", None, None))
    ELSE IF node.typ = "ASSIGNMENT" /\ "DYNAMIC_ASSIGNMENT" \in node.decorators
    THEN LET op == getArithmeticOperand(b, node.children[2])
             b1 == getArithmeticOperandState(b, node.children[2])
             b2 == Emit(b1, Instruction("mov", Register(node.children[1].val), op))
         IN ResetHelpRegister(b2, op)
    ELSE IF node.typ = "ASSIGNMENT" /\ "AUGMENTED_ASSIGNMENT" \in node.decorators
    THEN calculateArithmeticExpression(
             b, node.children[2], Register(node.children[1].val),
             IF node.val = "+=" THEN <<"add", "sub">> ELSE <<"sub", "add">>)
    ELSE IF node.typ = "DOCSTRING"
    THEN [b EXCEPT !.comments = Append(@, CommentOf(node.text))]
    ELSE IF node.typ = "BRANCH"
    THEN LET ifCount == b.ifCount
             b0 == [b EXCEPT !.ifCount = @ + 1]
             cmp == node.children[1]
             op1 == getArithmeticOperand(b0, cmp.children[1])
             b1 == getArithmeticOperandState(b0, cmp.children[1])
             op2 == getArithmeticOperand(b1, cmp.children[2])
             b2 == getArithmeticOperandState(b1, cmp.children[2])
             b3 == Emit(b2, Instruction("cmp", op1, op2))
             b4 == Emit(b3, Instruction(BranchOpcode(cmp.val),
                                        LabelRef(IfLabel(ifCount)), None))
             b5 == traverseTree(b4, node.children[3])
             b6 == Emit(b5, Instruction("jmp", LabelRef(EndifLabel(ifCount)), None))
             b7 == [b6 EXCEPT !.symbolTable =
                        DictSet(@, IfLabel(ifCount), Len(b6.instructions))]
             b8 == traverseTree(b7, node.children[2])
             b9 == [b8 EXCEPT !.symbolTable =
                        DictSet(@, EndifLabel(ifCount), Len(b8.instructions))]
         IN ResetHelpRegister(ResetHelpRegister(b9, op1), op2)
    ELSE b

\* IntermediateCode() after fromSyntaxTree(syntaxTree)
fromSyntaxTree(syntaxTree) ==
    LET b0 == [instructions |-> <<>>,
               symbolTable |-> syntaxTree.symbolTable,
               registers |-> syntaxTree.registers,
               comments |-> <<>>,
               helpRegisterScopes |-> <<>>,
               helpRegisterCount |-> 0,
               ifCount |-> 0]
        b1 == traverseTree(b0, syntaxTree.root)
    IN Emit(b1, Instruction("hlt", None, None))

(***************************************************************************)
(* Optimizer.  A rule that raises (a jump whose label is in no symbol      *)
(* table: KeyError; a label beyond the list: IndexError) returns the       *)
(* exception's name in err.                                                *)
(***************************************************************************)
\* ic.instructions[ic.symbolTable[instruction.op1.val]] can be evaluated
TargetError(o, instruction) ==
    IF instruction.op1.val \notin DOMAIN o.symbolTable THEN "KeyError"
    ELSE IF o.symbolTable[instruction.op1.val] >= Len(o.instructions)
         THEN "IndexError"
         ELSE ""

\* ic.instructions[ic.symbolTable[instruction.op1.val]] (lists are 0-based)
TargetInstruction(o, instruction) ==
    o.instructions[o.symbolTable[instruction.op1.val] + 1]

RECURSIVE JmpToJmpCopy(_, _)
\* optimizeJmpToJmp putting the jump it found in the place of the first one
JmpToJmpCopy(o, i) ==
    IF i >= Len(o.instructions) THEN [o |-> o, err |-> ""]
    ELSE LET instruction == o.instructions[i + 1]
         IN IF instruction.opcode \notin JumpOpcodes THEN JmpToJmpCopy(o, i + 1)
            ELSE IF TargetError(o, instruction) # ""
            THEN [o |-> o, err |-> TargetError(o, instruction)]
            ELSE IF TargetInstruction(o, instruction).opcode = "jmp"
            THEN JmpToJmpCopy(
                     [o EXCEPT !.instructions[i + 1] =
                          TargetInstruction(o, instruction)],
                     i + 1)
            ELSE JmpToJmpCopy(o, i + 1)

RECURSIVE JmpToJmpFrom(_, _)
\* the loop of optimizeJmpToJmp from list index i (0-based) on
JmpToJmpFrom(o, i) ==
    IF i >= Len(o.instructions) THEN [o |-> o, err |-> ""]
    ELSE LET instruction == o.instructions[i + 1]
         IN IF instruction.opcode \notin JumpOpcodes THEN JmpToJmpFrom(o, i + 1)
            ELSE IF TargetError(o, instruction) # ""
            THEN [o |-> o, err |-> TargetError(o, instruction)]
            ELSE IF TargetInstruction(o, instruction).opcode = "jmp"
            THEN JmpToJmpFrom(
                     [o EXCEPT !.instructions[i + 1] =
                          [instruction EXCEPT
                               !.op1 = TargetInstruction(o, instruction).op1]],
                     i + 1)
            ELSE JmpToJmpFrom(o, i + 1)

optimizeJmpToJmp(o) == JmpToJmpFrom(o, 0)

RECURSIVE JmpToHltAnyJump(_, _)
\* optimizeJmpToHlt testing "instruction.opcode in jumps" as the other rules do
JmpToHltAnyJump(o, i) ==
    IF i >= Len(o.instructions) THEN [o |-> o, err |-> ""]
    ELSE LET instruction == o.instructions[i + 1]
         IN IF instruction.opcode \notin JumpOpcodes THEN JmpToHltAnyJump(o, i + 1)
            ELSE IF TargetError(o, instruction) # ""
            THEN [o |-> o, err |-> TargetError(o, instruction)]
            ELSE IF TargetInstruction(o, instruction).opcode = "hlt"
            THEN JmpToHltAnyJump(
                     [o EXCEPT !.instructions[i + 1] = Instruction("hlt", None, None)],
                     i + 1)
            ELSE JmpToHltAnyJump(o, i + 1)

RECURSIVE JmpToHltFrom(_, _)
\* the loop of optimizeJmpToHlt from list index i (0-based) on
JmpToHltFrom(o, i) ==
    IF i >= Len(o.instructions) THEN [o |-> o, err |-> ""]
    ELSE LET instruction == o.instructions[i + 1]
         IN IF instruction.opcode # "jmp" THEN JmpToHltFrom(o, i + 1)
            ELSE IF TargetError(o, instruction) # ""
            THEN [o |-> o, err |-> TargetError(o, instruction)]
            ELSE IF TargetInstruction(o, instruction).opcode = "hlt"
            THEN JmpToHltFrom(
                     [o EXCEPT !.instructions[i + 1] = Instruction("hlt", None, None)],
                     i + 1)
            ELSE JmpToHltFrom(o, i + 1)

optimizeJmpToHlt(o) == JmpToHltFrom(o, 0)

\* ic.instructions.pop(): the last instruction instead of the one at i
PopLast(instructions, i) ==
    SubSeq(instructions, 1, Len(instructions) - 1)

\* ic.instructions.pop(i) (i 0-based)
PopAt(instructions, i) ==
    SubSeq(instructions, 1, i) \o SubSeq(instructions, i + 2, Len(instructions))

\* the label adjustment with "ic.symbolTable[label] >= i"
AdjustLabelsFrom(symbolTable, i) ==
    [label \in DOMAIN symbolTable |->
        IF IsLabel(label) /\ symbolTable[label] >= i
        THEN symbolTable[label] - 1
        ELSE symbolTable[label]]

\* the label adjustment after the jump at i was deleted
AdjustLabels(symbolTable, i) ==
    [label \in DOMAIN symbolTable |->
        IF IsLabel(label) /\ symbolTable[label] > i
        THEN symbolTable[label] - 1
        ELSE symbolTable[label]]

\* optimizeJmpToNextLine without the label adjustment
JmpToNextLineStale(o, i) ==
    LET instruction == o.instructions[i + 1]
    IN IF instruction.opcode \notin JumpOpcodes THEN [o |-> o, i |-> i + 1, err |-> ""]
       ELSE IF instruction.op1.val \notin DOMAIN o.symbolTable
       THEN [o |-> o, i |-> i, err |-> "KeyError"]
       ELSE IF o.symbolTable[instruction.op1.val] = i + 1
       THEN [o |-> [o EXCEPT !.instructions = PopAt(@, i)], i |-> i, err |-> ""]
       ELSE [o |-> o, i |-> i + 1, err |-> ""]

\* one iteration of the while loop of optimizeJmpToNextLine at index i:
\* the new code, the new i, and the exception raised if any
JmpToNextLineStep(o, i) ==
    LET instruction == o.instructions[i + 1]
    IN IF instruction.opcode \notin JumpOpcodes THEN [o |-> o, i |-> i + 1, err |-> ""]
       ELSE IF instruction.op1.val \notin DOMAIN o.symbolTable
       THEN [o |-> o, i |-> i, err |-> "KeyError"]
       ELSE IF o.symbolTable[instruction.op1.val] = i + 1
       THEN [o |-> [o EXCEPT !.instructions = PopAt(@, i),
                             !.symbolTable = AdjustLabels(@, i)],
             i |-> i, err |-> ""]
       ELSE [o |-> o, i |-> i + 1, err |-> ""]

RECURSIVE JmpToNextLineFrom(_, _)
JmpToNextLineFrom(o, i) ==
    IF i >= Len(o.instructions) THEN [o |-> o, err |-> ""]
    ELSE LET r == JmpToNextLineStep(o, i)
         IN IF r.err # "" THEN [o |-> r.o, err |-> r.err]
            ELSE JmpToNextLineFrom(r.o, r.i)

optimizeJmpToNextLine(o) == JmpToNextLineFrom(o, 0)

(***************************************************************************)
(* IntermediateCode.compile, phase A: the expansion of one symbolic        *)
(* instruction.  A Bonsai instruction is (opcode, operand); the operand is *)
(* a Python str (k = "str": a register name or a label; k = "rel": "@+n"   *)
(* or "@-n"; k = "digits": the string of a constant), an int (k = "int": a *)
(* help-register id) or None.  After address resolution it is an absolute  *)
(* number (k = "abs") or the tuple ("H", id) (k = "H").                    *)
(***************************************************************************)
Bon(opcode, k, val, num) == [opcode |-> opcode, k |-> k, val |-> val, num |-> num]
BonRel(opcode, n) == Bon(opcode, "rel", "", n)
BonInt(opcode, h) == Bon(opcode, "int", "", h)
BonStr(opcode, name) == Bon(opcode, "str", name, 0)
BonNone(opcode) == Bon(opcode, "none", "", 0)

\* (opcode, op.val) for a symbolic operand op
BonOf(opcode, op) ==
    CASE op.typ = "HELP_REGISTER" -> BonInt(opcode, op.num)
      [] op.typ = "CONSTANT" -> Bon(opcode, "digits", "", op.num)
      [] op.typ = "NONE" -> BonNone(opcode)
      [] OTHER -> BonStr(opcode, op.val)

\* [x] * n
Repeat(x, n) == [j \in 1..n |-> x]

Extend(g, instrs) == [g EXCEPT !.bonInstructions = @ \o instrs]

\* helpRegisterScopes[storage.helpRegisterCount] = len(bonInstructions);
\* storage.helpRegisterCount += 1
CloseExpansionRegister(g) ==
    [g EXCEPT !.helpRegisterScopes =
                  PairSet(@, g.helpRegisterCount, Len(g.bonInstructions)),
              !.helpRegisterCount = @ + 1]

\* the loops without the INC that gives the source its value back
TransferLoopNoRestore(g, step, op1, op2) ==
    LET h == g.helpRegisterCount
    IN <<BonOf("TST", op2),
         BonRel("JMP", 8),
         BonInt("TST", h),
         BonRel("JMP", 2),
         BonRel("JMP", 8),
         BonInt("DEC", h),
         BonOf(step, op1),
         BonOf(step, op1),
         BonRel("JMP", -6),
         BonOf("DEC", op2),
         BonInt("INC", h),
         BonRel("JMP", -11)>>

\* the transfer and drain loops of compile_add / compile_sub; step is the
\* opcode applied to the destination (INC or DEC)
TransferLoop(g, step, op1, op2) ==
    LET h == g.helpRegisterCount
    IN <<BonOf("TST", op2),
         BonRel("JMP", 8),
         BonInt("TST", h),
         BonRel("JMP", 2),
         BonRel("JMP", 8),
         BonInt("DEC", h),
         BonOf(step, op1),
         BonOf("INC", op2),
         BonRel("JMP", -6),
         BonOf("DEC", op2),
         BonInt("INC", h),
         BonRel("JMP", -11)>>

\* compile_add with range(int(op2.val) + 1) for a constant
compile_add_inclusive(g, op1, op2) ==
    IF op2.typ = "CONSTANT"
    THEN Extend(g, Repeat(BonOf("INC", op1), op2.num + 1))
    ELSE IF op2.typ \in {"REGISTER", "HELP_REGISTER"}
    THEN CloseExpansionRegister(Extend(g, TransferLoop(g, "INC", op1, op2)))
    ELSE g

compile_add(g, op1, op2) ==
    IF op2.typ = "CONSTANT"
    THEN Extend(g, Repeat(BonOf("INC", op1), op2.num))
    ELSE IF op2.typ \in {"REGISTER", "HELP_REGISTER"}
    THEN CloseExpansionRegister(Extend(g, TransferLoop(g, "INC", op1, op2)))
    ELSE g

compile_sub(g, op1, op2) ==
    IF op2.typ = "CONSTANT"
    THEN Extend(g, Repeat(BonOf("DEC", op1), op2.num))
    ELSE IF op2.typ \in {"REGISTER", "HELP_REGISTER"}
    THEN CloseExpansionRegister(Extend(g, TransferLoop(g, "DEC", op1, op2)))
    ELSE g

\* the zeroing loop leaving one line too early when the register holds 0
ZeroLoopShortExit(op1) ==
    <<BonOf("TST", op1),
      BonRel("JMP", 2),
      BonRel("JMP", 2),
      BonOf("DEC", op1),
      BonRel("JMP", -4)>>

\* the zeroing loop of compile_mov
ZeroLoop(op1) ==
    <<BonOf("TST", op1),
      BonRel("JMP", 2),
      BonRel("JMP", 3),
      BonOf("DEC", op1),
      BonRel("JMP", -4)>>

compile_mov(g, op1, op2) ==
    IF op2.typ = "CONSTANT"
    THEN compile_add(Extend(g, ZeroLoop(op1)), op1, op2)
    ELSE IF op2.typ \in {"REGISTER", "HELP_REGISTER"}
    THEN compile_add(compile_add(Extend(g, ZeroLoop(op1)), op1, Constant(0)),
                     op1, op2)
    ELSE g

compile_hlt(g, op1, op2) == Extend(g, <<BonNone("HLT")>>)

compile_jmp(g, op1, op2) == Extend(g, <<BonOf("JMP", op1)>>)

\* the relative positions of the true and false branches (LABEL1_TRUE ...)
LABEL1_TRUE == 9
LABEL1_FALSE == 14
LABEL2_TRUE == 8
LABEL2_FALSE == 13
LABEL3_TRUE == 5
LABEL3_FALSE == 10
LABEL_RESTORE_BACK == 4
LABEL_ELSE == 3

\* the jump table with the rows of jg and jge exchanged
JumpTableSwapped(opcode, n) ==
    LET T1 == LABEL1_TRUE
        T2 == LABEL2_TRUE
        T3 == LABEL3_TRUE
        F1 == LABEL1_FALSE + n
        F2 == LABEL2_FALSE + n
        F3 == LABEL3_FALSE + n
    IN CASE opcode = "je" -> <<F1, T2, F3>>
         [] opcode = "jne" -> <<T1, F2, T3>>
         [] opcode = "jg" -> <<F1, T2, T3>>
         [] opcode = "jge" -> <<F1, F2, T3>>
         [] opcode = "jl" -> <<T1, F2, F3>>
         [] opcode = "jle" -> <<T1, T2, F3>>

\* the jump table of compile_cmp: (LABEL1, LABEL2, LABEL3) as relative
\* offsets, n the length of register_sequence
JumpTable(opcode, n) ==
    LET T1 == LABEL1_TRUE
        T2 == LABEL2_TRUE
        T3 == LABEL3_TRUE
        F1 == LABEL1_FALSE + n
        F2 == LABEL2_FALSE + n
        F3 == LABEL3_FALSE + n
    IN CASE opcode = "je" -> <<F1, T2, F3>>
         [] opcode = "jne" -> <<T1, F2, T3>>
         [] opcode = "jg" -> <<F1, F2, T3>>
         [] opcode = "jge" -> <<F1, T2, T3>>
         [] opcode = "jl" -> <<T1, F2, F3>>
         [] opcode = "jle" -> <<T1, T2, F3>>

\* the lockstep-decrement loop and the two restore loops; o1, o2 are the
\* operands compared, h the counter, seq the register_sequence
CompareLoop(o1, o2, h, seq, branch) ==
    LET n == Len(seq)
        L == JumpTable(branch.opcode, n)
    IN <<BonOf("TST", o1),
         BonRel("JMP", 4),
         BonOf("TST", o2),
         BonRel("JMP", L[1]),
         BonRel("JMP", L[2]),
         BonOf("TST", o2),
         BonRel("JMP", 2),
         BonRel("JMP", L[3]),
         BonOf("DEC", o1),
         BonOf("DEC", o2),
         BonInt("INC", h),
         BonRel("JMP", -11),
         BonInt("TST", h),
         BonRel("JMP", 2),
         BonOf("JMP", branch.op1),
         BonInt("DEC", h)>>
       \o seq \o
       <<BonRel("JMP", -(LABEL_RESTORE_BACK + n)),
         BonInt("TST", h),
         BonRel("JMP", 2),
         BonRel("JMP", LABEL_ELSE + n),
         BonInt("DEC", h)>>
       \o seq \o
       <<BonRel("JMP", -(LABEL_RESTORE_BACK + n))>>

\* the fast expansion with jle and je sharing the expansion of jg and jne
CompareZeroNoSkip(g, op1, branch) ==
    IF branch.opcode \in {"jg", "jne", "jle", "je"}
    THEN Extend(g, <<BonOf("TST", op1), BonOf("JMP", branch.op1)>>)
    ELSE IF branch.opcode = "jge"
    THEN Extend(g, <<BonOf("JMP", branch.op1)>>)
    ELSE IF branch.opcode = "jl"
    THEN [g EXCEPT !.err = "CompilerError"]
    ELSE g

\* the fast expansion of a comparison with the constant 0
CompareZero(g, op1, branch) ==
    IF branch.opcode \in {"jg", "jne"}
    THEN Extend(g, <<BonOf("TST", op1), BonOf("JMP", branch.op1)>>)
    ELSE IF branch.opcode = "jge"
    THEN Extend(g, <<BonOf("JMP", branch.op1)>>)
    ELSE IF branch.opcode = "jl"
    THEN [g EXCEPT !.err = "CompilerError"]
    ELSE IF branch.opcode \in {"jle", "je"}
    THEN Extend(g, <<BonOf("TST", op1), BonRel("JMP", 2), BonOf("JMP", branch.op1)>>)
    ELSE g

\* a constant operand of a comparison is added into a fresh help register
\* (the register is the result's op, the generator after it the result's g)
Materialize(g, op) ==
    IF op.typ = "CONSTANT"
    THEN [g |-> compile_add([g EXCEPT !.helpRegisterCount = @ + 1],
                            HelpRegister(g.helpRegisterCount), op),
          op |-> HelpRegister(g.helpRegisterCount),
          seq |-> <<>>]
    ELSE [g |-> g, op |-> op, seq |-> <<BonOf("INC", op)>>]

\* compile_mov(Operand("HELP_REGISTER", op), Operand("CONSTANT", "0")) and
\* the scope entry, when type(op) == int
ResetOperand(g, op) ==
    IF op.typ = "HELP_REGISTER"
    THEN LET g1 == compile_mov(g, op, Constant(0))
         IN [g1 EXCEPT !.helpRegisterScopes =
                 PairSet(@, op.num, Len(g1.bonInstructions))]
    ELSE g

compile_cmp(g0, op1, op2, instructions) ==
    LET g == [g0 EXCEPT !.head = @ + 1]
    IN IF g.head >= Len(instructions) THEN [g EXCEPT !.err = "IndexError"]
       ELSE LET branch == instructions[g.head + 1]
            IN IF op2.typ = "CONSTANT" /\ op2.num = 0
               THEN CompareZero(g, op1, branch)
               ELSE IF branch.opcode \notin CondJumpOpcodes
               THEN [g EXCEPT !.err = "KeyError"]
               ELSE LET m1 == Materialize(g, op1)
                        m2 == Materialize(m1.g, op2)
                        g2 == m2.g
                        g3 == CloseExpansionRegister(
                                  Extend(g2, CompareLoop(m1.op, m2.op,
                                                         g2.helpRegisterCount,
                                                         m1.seq \o m2.seq, branch)))
                    IN ResetOperand(ResetOperand(g3, m1.op), m2.op)

\* compiler_functions[instruction.opcode](instruction.op1, instruction.op2)
CompileInstruction(g, instruction, instructions) ==
    CASE instruction.opcode = "add" -> compile_add(g, instruction.op1, instruction.op2)
      [] instruction.opcode = "sub" -> compile_sub(g, instruction.op1, instruction.op2)
      [] instruction.opcode = "mov" -> compile_mov(g, instruction.op1, instruction.op2)
      [] instruction.opcode = "hlt" -> compile_hlt(g, instruction.op1, instruction.op2)
      [] instruction.opcode = "jmp" -> compile_jmp(g, instruction.op1, instruction.op2)
      [] instruction.opcode = "cmp" ->
             compile_cmp(g, instruction.op1, instruction.op2, instructions)
      [] OTHER -> [g EXCEPT !.err = "KeyError"]

(***************************************************************************)
(* IntermediateCode.compile, phase A: the main loop, which replays the     *)
(* labels and the builder's help-register scopes against the positions of  *)
(* the Bonsai code.                                                        *)
(***************************************************************************)
RECURSIVE SortedLabels(_, _)
\* orgLabels: the (line, label) pairs of the labels in names, sorted by line
SortedLabels(symbolTable, names) ==
    IF names = {} THEN <<>>
    ELSE LET first == CHOOSE l \in names :
                          \A other \in names : symbolTable[l] <= symbolTable[other]
         IN <<<<symbolTable[first], first>>>>
            \o SortedLabels(symbolTable, names \ {first})

OrgLabels(symbolTable) ==
    SortedLabels(symbolTable, {name \in DOMAIN symbolTable : IsLabel(name)})

\* list.sort(key=lambda e: e[0]) is stable: x goes behind every entry whose
\* line is not greater
InsertByLine(sorted, x) ==
    LET before == Cardinality({j \in 1..Len(sorted) : sorted[j][1] <= x[1]})
    IN SubSeq(sorted, 1, before) \o <<x>> \o SubSeq(sorted, before + 1, Len(sorted))

RECURSIVE SortByLine(_)
SortByLine(entries) ==
    IF entries = <<>> THEN <<>>
    ELSE InsertByLine(SortByLine(SubSeq(entries, 1, Len(entries) - 1)),
                      entries[Len(entries)])

\* [(line, register) for register, line in scopes.items()], sorted by line
SortedScopes(scopes) ==
    SortByLine([j \in 1..Len(scopes) |-> <<scopes[j][2], scopes[j][1]>>])

RECURSIVE ReplayLabels(_, _, _, _, _)
\* the while loop over orgLabels at the top of an iteration; the result is
\* the new labels and labelHead
ReplayLabels(orgLabels, labelHead, head, labels, position) ==
    IF orgLabels[labelHead + 1][1] = head
    THEN LET labels1 == DictSet(labels, orgLabels[labelHead + 1][2], position)
         IN IF labelHead < Len(orgLabels) - 1
            THEN ReplayLabels(orgLabels, labelHead + 1, head, labels1, position)
            ELSE [labels |-> labels1, labelHead |-> labelHead]
    ELSE [labels |-> labels, labelHead |-> labelHead]

RECURSIVE ReplayScopes(_, _, _, _, _)
\* the while loop over orgHelpRegisterScopes at the end of an iteration
ReplayScopes(orgScopes, scopeHead, head, scopes, position) ==
    IF orgScopes[scopeHead + 1][1] = head
    THEN LET scopes1 == PairSet(scopes, orgScopes[scopeHead + 1][2], position)
         IN IF scopeHead < Len(orgScopes) - 1
            THEN ReplayScopes(orgScopes, scopeHead + 1, head, scopes1, position)
            ELSE [scopes |-> scopes1, scopeHead |-> scopeHead]
    ELSE [scopes |-> scopes, scopeHead |-> scopeHead]

\* the generator's locals when compile() starts on the code o
CompileStart(o) ==
    [bonInstructions |-> <<>>,
     helpRegisterScopes |-> <<>>,
     helpRegisterCount |-> o.helpRegisterCount,
     head |-> 0,
     labels |-> <<>>,
     labelHead |-> 0,
     helpRegisterScopeHead |-> 0,
     err |-> ""]

\* one iteration of "while storage.head < len(self.instructions)"
CompileIteration(o, g) ==
    LET orgLabels == OrgLabels(o.symbolTable)
        orgScopes == SortedScopes(o.helpRegisterScopes)
        l == IF orgLabels # <<>>
             THEN ReplayLabels(orgLabels, g.labelHead, g.head, g.labels,
                               Len(g.bonInstructions))
             ELSE [labels |-> g.labels, labelHead |-> g.labelHead]
        g1 == [g EXCEPT !.labels = l.labels, !.labelHead = l.labelHead]
        g2 == CompileInstruction(g1, o.instructions[g.head + 1], o.instructions)
        g3 == [g2 EXCEPT !.head = @ + 1]
        sc == IF orgScopes # <<>>
              THEN ReplayScopes(orgScopes, g3.helpRegisterScopeHead, g3.head,
                                g3.helpRegisterScopes, Len(g3.bonInstructions))
              ELSE [scopes |-> g3.helpRegisterScopes,
                    scopeHead |-> g3.helpRegisterScopeHead]
    IN IF g2.err # "" THEN g2
       ELSE [g3 EXCEPT !.helpRegisterScopes = sc.scopes,
                       !.helpRegisterScopeHead = sc.scopeHead]

(***************************************************************************)
(* Phase B: address resolution and help-register allocation.               *)
(***************************************************************************)
\* the exception the lookup for the operand of instruction raises, if any
ResolveError(o, g, instruction) ==
    IF instruction.k = "digits" THEN "KeyError"
    ELSE IF instruction.k # "str" THEN ""
    ELSE IF IsLabel(instruction.val)
    THEN IF instruction.val \in DOMAIN g.labels THEN "" ELSE "KeyError"
    ELSE IF instruction.val \in DOMAIN o.symbolTable THEN "" ELSE "KeyError"

\* bonInstructions[i] after the first pass (i 0-based)
ResolveInstruction(o, g, i, instruction) ==
    CASE instruction.k = "int" -> Bon(instruction.opcode, "H", "", instruction.num)
      [] instruction.k = "rel" ->
             Bon(instruction.opcode, "abs", "", i + instruction.num + 1)
      [] instruction.k = "str" /\ IsLabel(instruction.val) ->
             Bon(instruction.opcode, "abs", "", g.labels[instruction.val] + 1)
      [] instruction.k = "str" /\ ~IsLabel(instruction.val) ->
             Bon(instruction.opcode, "abs", "", o.symbolTable[instruction.val] + 1)
      [] OTHER -> instruction

ResolveAddresses(o, g) ==
    IF \E j \in 1..Len(g.bonInstructions) :
           ResolveError(o, g, g.bonInstructions[j]) # ""
    THEN [g EXCEPT !.err = "KeyError"]
    ELSE [g EXCEPT !.bonInstructions =
              [j \in 1..Len(g.bonInstructions) |->
                  ResolveInstruction(o, g, j - 1, g.bonInstructions[j])]]

\* the allocation that numbers a new slot without counting it
AllocateOperandUncounted(a, id) ==
    IF id \in DOMAIN a.helpRegistersInUse THEN a
    ELSE IF a.freeHelpRegisters # <<>>
    THEN [a EXCEPT !.helpRegistersInUse =
                       DictSet(@, id, a.freeHelpRegisters[Len(a.freeHelpRegisters)]),
                   !.freeHelpRegisters = SubSeq(@, 1, Len(@) - 1)]
    ELSE [a EXCEPT !.helpRegistersInUse = DictSet(@, id, a.registerCount + 1)]

\* the slot a help-register operand gets: the id's slot, else a free slot,
\* else a new one
AllocateOperand(a, id) ==
    IF id \in DOMAIN a.helpRegistersInUse THEN a
    ELSE IF a.freeHelpRegisters # <<>>
    THEN [a EXCEPT !.helpRegistersInUse =
                       DictSet(@, id, a.freeHelpRegisters[Len(a.freeHelpRegisters)]),
                   !.freeHelpRegisters = SubSeq(@, 1, Len(@) - 1)]
    ELSE [a EXCEPT !.registerCount = @ + 1,
                   !.helpRegistersInUse = DictSet(@, id, a.registerCount + 1)]

\* the release of the id whose scope ends at position i
ReleaseAt(a, scopes, i) ==
    IF scopes # <<>> /\ i = scopes[a.helpRegisterScopeHead + 1][1]
    THEN LET id == scopes[a.helpRegisterScopeHead + 1][2]
         IN IF id \notin DOMAIN a.helpRegistersInUse
            THEN [a EXCEPT !.err = "KeyError"]
            ELSE [a EXCEPT
                    !.freeHelpRegisters = Append(@, a.helpRegistersInUse[id]),
                    !.helpRegistersInUse =
                        [x \in (DOMAIN a.helpRegistersInUse) \ {id} |->
                            a.helpRegistersInUse[x]],
                    !.helpRegisterScopeHead =
                        IF @ < Len(scopes) - 1 THEN @ + 1 ELSE @]
    ELSE a

\* one iteration of the allocation loop at position i (0-based)
AllocateStep(a, scopes, i) ==
    LET instruction == a.bonInstructions[i + 1]
        a1 == IF instruction.k = "H"
              THEN LET a0 == AllocateOperand(a, instruction.num)
                   IN [a0 EXCEPT !.bonInstructions[i + 1] =
                           Bon(instruction.opcode, "abs", "",
                               a0.helpRegistersInUse[instruction.num])]
              ELSE a
    IN ReleaseAt(a1, scopes, i)

RECURSIVE AllocateFrom(_, _, _)
AllocateFrom(a, scopes, i) ==
    IF i >= Len(a.bonInstructions) \/ a.err # "" THEN a
    ELSE AllocateFrom(AllocateStep(a, scopes, i), scopes, i + 1)

\* the second pass of phase B over the resolved code of g
AllocateRegisters(o, g) ==
    AllocateFrom([bonInstructions |-> g.bonInstructions,
                  registerCount |-> Len(o.registers),
                  freeHelpRegisters |-> <<>>,
                  helpRegistersInUse |-> <<>>,
                  helpRegisterScopeHead |-> 0,
                  err |-> ""],
                 SortedScopes(g.helpRegisterScopes), 0)

\* the program text with range(9-len(self.comments)) empty comment lines
OutputPadNine(o, a) ==
    [status |-> "compiled",
     code |-> a.bonInstructions,
     registerCount |-> a.registerCount,
     freeHelpRegisters |-> a.freeHelpRegisters,
     helpRegistersInUse |-> a.helpRegistersInUse,
     registers |-> o.registers \o Repeat(0, Len(a.freeHelpRegisters)),
     comments |-> o.comments
                  \o Repeat(<<>>, IF Len(o.comments) < 9
                                  THEN 9 - Len(o.comments) ELSE 0)]

\* the program text compile() returns, as its parts: the instruction lines,
\* the register lines and the comment lines
Output(o, a) ==
    [status |-> "compiled",
     code |-> a.bonInstructions,
     registerCount |-> a.registerCount,
     freeHelpRegisters |-> a.freeHelpRegisters,
     helpRegistersInUse |-> a.helpRegistersInUse,
     registers |-> o.registers \o Repeat(0, Len(a.freeHelpRegisters)),
     comments |-> o.comments
                  \o Repeat(<<>>, IF Len(o.comments) < 10
                                  THEN 10 - Len(o.comments) ELSE 0)]

(***************************************************************************)
(* The whole Optimizer as a function: the fixpoint loop over the three     *)
(* rules.  old_instructions = None is the empty list, which no code equals *)
(* (every code ends with hlt).                                             *)
(***************************************************************************)
\* "while old_instructions is not ic.instructions": a copy is never the list
LoopContinuesIdentity(old_instructions, instructions) == TRUE

\* "while old_instructions is None": the rules are applied once
LoopContinuesOnce(old_instructions, instructions) == old_instructions = <<>>

\* the test of "while old_instructions != ic.instructions"
LoopContinues(old_instructions, instructions) == old_instructions # instructions

\* one round of "for optimization in optimizations: optimization()"
OptimizerPass(o) ==
    LET r1 == optimizeJmpToJmp(o)
        r2 == IF r1.err = "" THEN optimizeJmpToHlt(r1.o) ELSE r1
        r3 == IF r2.err = "" THEN optimizeJmpToNextLine(r2.o) ELSE r2
    IN r3

RECURSIVE OptimizerLoop(_, _)
OptimizerLoop(o, old_instructions) ==
    IF LoopContinues(old_instructions, o.instructions)
    THEN LET r == OptimizerPass(o)
         IN IF r.err # "" THEN r ELSE OptimizerLoop(r.o, o.instructions)
    ELSE [o |-> o, err |-> ""]

Optimizer(ic0) == OptimizerLoop(ic0, <<>>)

(***************************************************************************)
(* The state: the syntax tree handed to the back end, the builder's code   *)
(* ic, the optimizer's copy oc and its position opt, the generator's       *)
(* locals cg, the generated program out, the register machine m running    *)
(* it, and the reference interpreters: src for the source program, irA and *)
(* irB for the symbolic code before and after optimization.                *)
(***************************************************************************)
VARIABLES phase, err, ast, ic, oc, opt, cg, out, m, src, irA, irB

vars == <<phase, err, ast, ic, oc, opt, cg, out, m, src, irA, irB>>

Idle == [status |-> "idle"]

(***************************************************************************)
(* compilePB, from the decorated tree on.                                  *)
(***************************************************************************)
Build ==
    /\ phase = "build"
    /\ ic' = fromSyntaxTree(ast)
    /\ oc' = ic'
    /\ opt' = [pc |-> "test", old_instructions |-> <<>>]
    /\ phase' = "optimize"
    /\ UNCHANGED <<err, ast, cg, out, m, src, irA, irB>>

\* while old_instructions != ic.instructions: old_instructions = deepcopy(...)
OptLoopTest ==
    /\ phase = "optimize"
    /\ opt.pc = "test"
    /\ IF LoopContinues(opt.old_instructions, oc.instructions)
       THEN /\ opt' = [opt EXCEPT !.pc = "JmpToJmp",
                                  !.old_instructions = oc.instructions]
            /\ phase' = phase
       ELSE /\ opt' = opt
            /\ phase' = "optimized"
    /\ UNCHANGED <<err, ast, ic, oc, cg, out, m, src, irA, irB>>

OptRule(pc, result, next) ==
    /\ phase = "optimize"
    /\ opt.pc = pc
    /\ IF result.err # ""
       THEN /\ phase' = "error"
            /\ err' = result.err
            /\ UNCHANGED <<oc, opt>>
       ELSE /\ oc' = result.o
            /\ opt' = [opt EXCEPT !.pc = next]
            /\ UNCHANGED <<phase, err>>
    /\ UNCHANGED <<ast, ic, cg, out, m, src, irA, irB>>

OptJmpToJmp == OptRule("JmpToJmp", optimizeJmpToJmp(oc), "JmpToHlt")

OptJmpToHlt == OptRule("JmpToHlt", optimizeJmpToHlt(oc), "JmpToNextLine")

OptJmpToNextLine == OptRule("JmpToNextLine", optimizeJmpToNextLine(oc), "test")

\* bonCode = oc.compile(): the start, the main loop, the two passes
CompileBegin ==
    /\ phase = "optimized"
    /\ cg' = CompileStart(oc)
    /\ phase' = "compile"
    /\ UNCHANGED <<err, ast, ic, oc, opt, out, m, src, irA, irB>>

CompileLoop ==
    /\ phase = "compile"
    /\ cg.head < Len(oc.instructions)
    /\ LET g == CompileIteration(oc, cg)
       IN IF g.err # ""
          THEN /\ phase' = "error"
               /\ err' = g.err
               /\ cg' = cg
          ELSE /\ cg' = g
               /\ UNCHANGED <<phase, err>>
    /\ UNCHANGED <<ast, ic, oc, opt, out, m, src, irA, irB>>

Resolve ==
    /\ phase = "compile"
    /\ cg.head >= Len(oc.instructions)
    /\ LET g == ResolveAddresses(oc, cg)
       IN IF g.err # ""
          THEN /\ phase' = "error"
               /\ err' = g.err
               /\ cg' = cg
          ELSE /\ cg' = g
               /\ phase' = "allocate"
               /\ err' = err
    /\ UNCHANGED <<ast, ic, oc, opt, out, m, src, irA, irB>>

Allocate ==
    /\ phase = "allocate"
    /\ LET a == AllocateRegisters(oc, cg)
       IN IF a.err # ""
          THEN /\ phase' = "error"
               /\ err' = a.err
               /\ out' = out
          ELSE /\ out' = Output(oc, a)
               /\ phase' = "compiled"
               /\ err' = err
    /\ UNCHANGED <<ast, ic, oc, opt, cg, m, src, irA, irB>>

(***************************************************************************)
(* The Bonsai register machine running the generated program: registers    *)
(* and lines are numbered from 1.  TST skips the next line when its        *)
(* register holds 0.  What DEC does to a register holding 0 is not defined *)
(* by the machine's contract: the register stays 0 or the machine stops.   *)
(* A line or register the program does not have stops the machine too.     *)
(***************************************************************************)
DecAtZero == {"saturate", "trap"}

Current == out.code[m.pc]

\* the machine after control moved to line pc
MoveTo(mach, pc) ==
    IF pc \in 1..Len(out.code)
    THEN [mach EXCEPT !.pc = pc]
    ELSE [mach EXCEPT !.status = "fault"]

Executing(opcode) ==
    /\ phase = "run"
    /\ m.status = "running"
    /\ Current.opcode = opcode

HasRegister(r) == r \in 1..Len(m.regs)

RunBegin ==
    /\ phase = "compiled"
    /\ m' = MoveTo([status |-> "running", pc |-> 1, regs |-> out.registers], 1)
    /\ phase' = "run"
    /\ UNCHANGED <<err, ast, ic, oc, opt, cg, out, src, irA, irB>>

ExecINC ==
    /\ Executing("INC")
    /\ IF HasRegister(Current.num)
       THEN /\ m.regs[Current.num] < MaxVal
            /\ m' = MoveTo([m EXCEPT !.regs[Current.num] = @ + 1], m.pc + 1)
       ELSE m' = [m EXCEPT !.status = "fault"]
    /\ UNCHANGED <<phase, err, ast, ic, oc, opt, cg, out, src, irA, irB>>

ExecDEC ==
    /\ Executing("DEC")
    /\ IF ~HasRegister(Current.num)
       THEN m' = [m EXCEPT !.status = "fault"]
       ELSE IF m.regs[Current.num] > 0
       THEN m' = MoveTo([m EXCEPT !.regs[Current.num] = @ - 1], m.pc + 1)
       ELSE \E outcome \in DecAtZero :
                m' = IF outcome = "saturate"
                     THEN MoveTo(m, m.pc + 1)
                     ELSE [m EXCEPT !.status = "trap"]
    /\ UNCHANGED <<phase, err, ast, ic, oc, opt, cg, out, src, irA, irB>>

ExecTST ==
    /\ Executing("TST")
    /\ IF ~HasRegister(Current.num)
       THEN m' = [m EXCEPT !.status = "fault"]
       ELSE m' = MoveTo(m, IF m.regs[Current.num] = 0 THEN m.pc + 2 ELSE m.pc + 1)
    /\ UNCHANGED <<phase, err, ast, ic, oc, opt, cg, out, src, irA, irB>>

ExecJMP ==
    /\ Executing("JMP")
    /\ m' = MoveTo(m, Current.num)
    /\ UNCHANGED <<phase, err, ast, ic, oc, opt, cg, out, src, irA, irB>>

ExecHLT ==
    /\ Executing("HLT")
    /\ m' = [m EXCEPT !.status = "halted"]
    /\ UNCHANGED <<phase, err, ast, ic, oc, opt, cg, out, src, irA, irB>>

(***************************************************************************)
(* The reference interpreter of the symbolic code: mov, add and sub on     *)
(* registers holding natural numbers, cmp recording its operands' values   *)
(* for the conditional jump that follows, labels resolved by the symbol    *)
(* table.  A subtraction below zero has no meaning ("undefined").          *)
(***************************************************************************)
RegisterNames(symbolTable) == {name \in DOMAIN symbolTable : ~IsLabel(name)}

IRStart(o) ==
    [status |-> "running",
     pc |-> 0,
     regs |-> [name \in RegisterNames(o.symbolTable) |->
                  o.registers[o.symbolTable[name] + 1]],
     help |-> [h \in 0..(o.helpRegisterCount - 1) |-> 0],
     flags |-> <<0, 0>>]

IRValue(s, op) ==
    CASE op.typ = "REGISTER" -> s.regs[op.val]
      [] op.typ = "HELP_REGISTER" -> s.help[op.num]
      [] OTHER -> op.num

IRAssign(s, op, v) ==
    IF v < 0 THEN [s EXCEPT !.status = "undefined"]
    ELSE IF v > MaxVal THEN [s EXCEPT !.status = "capped"]
    ELSE IF op.typ = "REGISTER"
    THEN [s EXCEPT !.regs[op.val] = v, !.pc = @ + 1]
    ELSE [s EXCEPT !.help[op.num] = v, !.pc = @ + 1]

Relation(opcode, a, b) ==
    CASE opcode = "jg" -> a > b
      [] opcode = "jge" -> a >= b
      [] opcode = "jl" -> a < b
      [] opcode = "jle" -> a <= b
      [] opcode = "je" -> a = b
      [] opcode = "jne" -> a # b

IRStep(o, s) ==
    IF s.status # "running" THEN s
    ELSE IF s.pc >= Len(o.instructions) THEN [s EXCEPT !.status = "undefined"]
    ELSE LET instruction == o.instructions[s.pc + 1]
             opcode == instruction.opcode
         IN CASE opcode = "mov" ->
                     IRAssign(s, instruction.op1, IRValue(s, instruction.op2))
              [] opcode = "add" ->
                     IRAssign(s, instruction.op1,
                              IRValue(s, instruction.op1) + IRValue(s, instruction.op2))
              [] opcode = "sub" ->
                     IRAssign(s, instruction.op1,
                              IRValue(s, instruction.op1) - IRValue(s, instruction.op2))
              [] opcode = "cmp" ->
                     [s EXCEPT !.flags = <<IRValue(s, instruction.op1),
                                           IRValue(s, instruction.op2)>>,
                               !.pc = @ + 1]
              [] opcode = "jmp" ->
                     [s EXCEPT !.pc = o.symbolTable[instruction.op1.val]]
              [] opcode \in CondJumpOpcodes ->
                     IF Relation(opcode, s.flags[1], s.flags[2])
                     THEN [s EXCEPT !.pc = o.symbolTable[instruction.op1.val]]
                     ELSE [s EXCEPT !.pc = @ + 1]
              [] OTHER -> [s EXCEPT !.status = "halted"]

InterpBegin ==
    /\ phase = "optimized"
    /\ irA' = IRStart(ic)
    /\ irB' = IRStart(oc)
    /\ phase' = "interp"
    /\ UNCHANGED <<err, ast, ic, oc, opt, cg, out, m, src>>

\* both interpreters take their next step
InterpStep ==
    /\ phase = "interp"
    /\ irA.status = "running" \/ irB.status = "running"
    /\ irA' = IRStep(ic, irA)
    /\ irB' = IRStep(oc, irB)
    /\ UNCHANGED <<phase, err, ast, ic, oc, opt, cg, out, m, src>>

(***************************************************************************)
(* The reference interpreter of the source program: the statements of the  *)
(* tree in order, cont being the statements still to run.  An expression   *)
(* is the sum of its terms from left to right and has no meaning when the  *)
(* sum falls below zero on the way.                                        *)
(***************************************************************************)
TermValue(regs, term) ==
    CASE term.typ = "CONSTANT" -> term.num
      [] term.typ = "REGISTER" -> regs[term.val]
      [] term.typ = "SIGN" ->
             0 - (IF term.children[1].typ = "CONSTANT"
                  THEN term.children[1].num
                  ELSE regs[term.children[1].val])

\* the terms of an arithmetic expression
Terms(node) ==
    IF node.typ \in {"CONSTANT", "REGISTER", "SIGN"} THEN <<node>>
    ELSE node.children

RECURSIVE Accumulate(_, _, _, _, _)
\* base plus (sign = 1) or minus (sign = -1) the terms from i on; -1 when a
\* partial sum is negative
Accumulate(regs, terms, i, base, sign) ==
    IF base < 0 THEN -1
    ELSE IF i > Len(terms) THEN base
    ELSE Accumulate(regs, terms, i + 1,
                    base + sign * TermValue(regs, terms[i]), sign)

RECURSIVE FindLabel(_, _, _)
\* the statements to run after "label name", searched in stmts, which are
\* followed by the statements k
FindLabel(stmts, k, name) ==
    IF stmts = <<>> THEN [found |-> FALSE, cont |-> <<>>]
    ELSE LET head == stmts[1]
             rest == Tail(stmts) \o k
         IN IF head.typ = "LABEL" /\ head.children[1].val = name
            THEN [found |-> TRUE, cont |-> rest]
            ELSE IF head.typ = "BRANCH"
            THEN LET inIf == FindLabel(head.children[2].children, rest, name)
                     inElse == FindLabel(head.children[3].children, rest, name)
                 IN IF inIf.found THEN inIf
                    ELSE IF inElse.found THEN inElse
                    ELSE FindLabel(Tail(stmts), k, name)
            ELSE FindLabel(Tail(stmts), k, name)

SourceStart(tree) ==
    [status |-> "running",
     cont |-> tree.root.children,
     regs |-> [name \in RegisterNames(tree.symbolTable) |->
                  tree.registers[tree.symbolTable[name] + 1]]]

SourceAssign(s, name, v) ==
    IF v < 0 THEN [s EXCEPT !.status = "undefined"]
    ELSE IF v > MaxVal THEN [s EXCEPT !.status = "capped"]
    ELSE [s EXCEPT !.regs[name] = v, !.cont = Tail(@)]

SourceStep(tree, s) ==
    IF s.cont = <<>> THEN [s EXCEPT !.status = "halted"]
    ELSE LET node == s.cont[1]
         IN CASE node.typ = "HALT" -> [s EXCEPT !.status = "halted"]
              [] node.typ = "GOTO" ->
                     LET target == FindLabel(tree.root.children, <<>>,
                                             node.children[1].val)
                     IN IF target.found
                        THEN [s EXCEPT !.cont = target.cont]
                        ELSE [s EXCEPT !.status = "undefined"]
              [] node.typ = "ASSIGNMENT" /\ "DYNAMIC_ASSIGNMENT" \in node.decorators ->
                     SourceAssign(s, node.children[1].val,
                                  Accumulate(s.regs, Terms(node.children[2]), 1, 0, 1))
              [] node.typ = "ASSIGNMENT" /\ "AUGMENTED_ASSIGNMENT" \in node.decorators ->
                     SourceAssign(s, node.children[1].val,
                                  Accumulate(s.regs, Terms(node.children[2]), 1,
                                             s.regs[node.children[1].val],
                                             IF node.val = "+=" THEN 1 ELSE -1))
              [] node.typ = "BRANCH" ->
                     LET a == Accumulate(s.regs, Terms(node.children[1].children[1]),
                                         1, 0, 1)
                         b == Accumulate(s.regs, Terms(node.children[1].children[2]),
                                         1, 0, 1)
                     IN IF a < 0 \/ b < 0 THEN [s EXCEPT !.status = "undefined"]
                        ELSE IF Relation(BranchOpcode(node.children[1].val), a, b)
                        THEN [s EXCEPT !.cont = node.children[2].children \o Tail(@)]
                        ELSE [s EXCEPT !.cont = node.children[3].children \o Tail(@)]
              [] OTHER -> [s EXCEPT !.cont = Tail(@)]

\* the reference run starts when the machine has stopped
SourceBegin ==
    /\ phase = "run"
    /\ m.status # "running"
    /\ src' = SourceStart(ast)
    /\ phase' = "reference"
    /\ UNCHANGED <<err, ast, ic, oc, opt, cg, out, m, irA, irB>>

SourceRun ==
    /\ phase = "reference"
    /\ src.status = "running"
    /\ src' = SourceStep(ast, src)
    /\ UNCHANGED <<phase, err, ast, ic, oc, opt, cg, out, m, irA, irB>>

(***************************************************************************)
(* The decorated trees handed to the back end.  Two user registers x and y *)
(* with listed initial values; the statements are those SemanticAnalysis   *)
(* decorates: direct and augmented assignments of a term or a sum,         *)
(* branches on a comparison, labels, gotos, halt and docstrings.           *)
(***************************************************************************)
Names == {"x", "y"}

Comparators == {">", ">=", "<", "<=", "==", "!="}

Atoms == {RegNode(r) : r \in Names} \cup {ConstNode(n) : n \in 0..MaxConst}

\* right-hand sides: a single term, the empty sum (x = 0 after checkSum) and
\* sums of two registers
Sums ==
    {SumNode(<<>>)}
    \cup {SumNode(<<RegNode(a), RegNode(b)>>) : a, b \in Names}
    \cup {SumNode(<<RegNode(a), SignNode(RegNode(b))>>) : a, b \in Names}

Assignments ==
    {AssignNode("=", "DYNAMIC_ASSIGNMENT", d, e) : d \in Names, e \in Atoms \cup Sums}
    \cup {AssignNode(op, "AUGMENTED_ASSIGNMENT", d, e) :
              op \in {"+=", "-="}, d \in Names, e \in Atoms}

\* a program of one statement; a branch halts in its if-block
SingleStatements ==
    {<<s>> : s \in Assignments}
    \cup {<<BranchNode(c, e1, e2, <<HaltNode>>, <<>>)>> :
              c \in Comparators, e1 \in Atoms, e2 \in Atoms}

\* the bodies of the branches of a larger program
Bodies ==
    {<<>>,
     <<DocNode(<<"a", "\r", "\n", "b">>)>>,
     <<AssignNode("+=", "AUGMENTED_ASSIGNMENT", "y", RegNode("x"))>>}

Branches ==
    {<<BranchNode(c, RegNode("x"), e2, ifBlock, elseBlock)>> \o rest :
         c \in Comparators,
         e2 \in {RegNode("y"), ConstNode(0), ConstNode(MaxConst)},
         ifBlock \in Bodies,
         elseBlock \in {<<>>, <<AssignNode("=", "DYNAMIC_ASSIGNMENT", "y", ConstNode(1))>>},
         rest \in {<<>>, <<AssignNode("+=", "AUGMENTED_ASSIGNMENT", "x", ConstNode(1))>>}}

\* while x: x -= 1; y += step
Loops ==
    {<<LabelNode(".a"),
       BranchNode("!=", RegNode("x"), ConstNode(0),
                  <<AssignNode("-=", "AUGMENTED_ASSIGNMENT", "x", ConstNode(1)),
                    AssignNode("+=", "AUGMENTED_ASSIGNMENT", "y", e),
                    GotoNode(".a")>>,
                  <<>>)>> : e \in Atoms}

\* longest program of labels and gotos
MaxStmts == 4

JumpStatements ==
    {LabelNode(l) : l \in UserLabels} \cup {GotoNode(l) : l \in UserLabels}
    \cup {AssignNode("+=", "AUGMENTED_ASSIGNMENT", "x", ConstNode(1))}

\* the programs of labels and gotos that declare no label twice
Jumps ==
    {p \in UNION {[1..n -> JumpStatements] : n \in 1..MaxStmts} :
        \A j, k \in DOMAIN p : (p[j].typ = "LABEL" /\ p[j] = p[k]) => j = k}

\* x + y, an operand the builder computes into a help register
SumXY == SumNode(<<RegNode("x"), RegNode("y")>>)

\* a construct another one follows: a branch whose blocks are both empty, a
\* branch on a sum whose if-block ends, leaves by goto or halts, an add, a
\* goto into the next branch
Firsts ==
    {BranchNode("<", RegNode("x"), RegNode("y"), <<>>, <<>>),
     BranchNode(">", RegNode("x"), ConstNode(0), <<>>, <<>>),
     BranchNode(">", SumXY, RegNode("y"),
                <<AssignNode("+=", "AUGMENTED_ASSIGNMENT", "y", ConstNode(1))>>, <<>>),
     BranchNode(">", SumXY, RegNode("y"), <<GotoNode(".a")>>, <<>>),
     BranchNode(">", SumXY, RegNode("y"), <<HaltNode>>, <<>>),
     AssignNode("+=", "AUGMENTED_ASSIGNMENT", "y", RegNode("x")),
     GotoNode(".b")}

\* the construct that follows: a comparison "< 0", a branch on a sum with a
\* label in its if-block, a branch on a constant, a goto
Seconds ==
    {BranchNode("<", RegNode("x"), ConstNode(0), <<HaltNode>>, <<>>),
     BranchNode(">=", SumXY, RegNode("y"),
                <<LabelNode(".b"),
                  AssignNode("+=", "AUGMENTED_ASSIGNMENT", "x", ConstNode(1))>>, <<>>),
     BranchNode("==", ConstNode(1), RegNode("x"),
                <<AssignNode("+=", "AUGMENTED_ASSIGNMENT", "y", ConstNode(1))>>, <<>>),
     GotoNode(".a")}

\* two constructs in sequence, then "label .a" and an add; and a loop behind
\* a branch whose blocks are both empty
Sequels ==
    {<<f, s, LabelNode(".a"),
       AssignNode("+=", "AUGMENTED_ASSIGNMENT", "y", RegNode("x"))>> :
         f \in Firsts, s \in Seconds}
    \cup {<<BranchNode(">", RegNode("x"), ConstNode(0), <<>>, <<>>),
            LabelNode(".a"),
            AssignNode("+=", "AUGMENTED_ASSIGNMENT", "x", ConstNode(1)),
            GotoNode(".a")>>}

\* x + x, which no assignment to y folds into an augmented assignment
SumXX == SumNode(<<RegNode("x"), RegNode("x")>>)

\* y = x + x and y += x behind a jump that the optimizer deletes (a goto to
\* the next statement, the jump over an empty if-block), and behind none
Deleted ==
    {<<>>,
     <<GotoNode(".a"), LabelNode(".a")>>,
     <<BranchNode(">", RegNode("x"), RegNode("y"), <<>>,
                  <<AssignNode("+=", "AUGMENTED_ASSIGNMENT", "y", ConstNode(1))>>)>>}

Stales ==
    {d \o rest :
         d \in Deleted,
         rest \in {<<AssignNode("=", "DYNAMIC_ASSIGNMENT", "y", SumXX)>>,
                   <<AssignNode("=", "DYNAMIC_ASSIGNMENT", "y", SumXX),
                     AssignNode("+=", "AUGMENTED_ASSIGNMENT", "y", RegNode("x")),
                     AssignNode("=", "DYNAMIC_ASSIGNMENT", "y", SumXX)>>}}

\* "x = 5" as a dynamic assignment
MovFive == <<AssignNode("=", "DYNAMIC_ASSIGNMENT", "x", ConstNode(5))>>

MaxDocs == 11

\* nine, ten and eleven docstrings in sequence
Docs == {Repeat(DocNode(<<"a">>), n) : n \in 9..MaxDocs}

\* a branch with a branch in each of its blocks, and a branch behind it
Nested ==
    {<<BranchNode(">", RegNode("x"), RegNode("y"),
                  <<BranchNode("!=", SumXY, ConstNode(1),
                               <<AssignNode("+=", "AUGMENTED_ASSIGNMENT", "y", ConstNode(1))>>,
                               <<>>)>>,
                  <<BranchNode("<", RegNode("y"), ConstNode(MaxConst),
                               <<AssignNode("+=", "AUGMENTED_ASSIGNMENT", "x", ConstNode(1))>>,
                               <<AssignNode("+=", "AUGMENTED_ASSIGNMENT", "y", ConstNode(1))>>)>>)>>
         \o rest :
         rest \in {<<>>,
                   <<BranchNode("==", RegNode("x"), ConstNode(0), <<HaltNode>>,
                                <<AssignNode("=", "DYNAMIC_ASSIGNMENT", "y", SumXX)>>)>>}}

\* "y = -x", whose sum of one term checkSum turns into that term, the SIGN
\* node, and "y = x + x - 1"
Signed ==
    {<<AssignNode("=", "DYNAMIC_ASSIGNMENT", "y", SignNode(RegNode("x")))>>,
     <<AssignNode("=", "DYNAMIC_ASSIGNMENT", "y",
                  SumNode(<<RegNode("x"), RegNode("x"), SignNode(ConstNode(1))>>))>>}

Programs ==
    SingleStatements \cup Branches \cup Loops \cup Jumps \cup Sequels \cup Stales
        \cup {MovFive} \cup Docs \cup Nested \cup Signed

Tree(stmts, values) ==
    [root |-> BlockNode(stmts),
     symbolTable |-> [name \in Names |-> IF name = "x" THEN 0 ELSE 1],
     registers |-> values]

Trees == {Tree(stmts, <<vx, vy>>) : stmts \in Programs, vx \in 0..MaxInit, vy \in 0..MaxInit}

Init ==
    /\ ast \in Trees
    /\ phase = "build"
    /\ err = ""
    /\ ic = Idle
    /\ oc = Idle
    /\ opt = Idle
    /\ cg = Idle
    /\ out = Idle
    /\ m = Idle
    /\ src = Idle
    /\ irA = Idle
    /\ irB = Idle

\* compilePB up to the optimized code
NextOpt ==
    \/ Build
    \/ OptLoopTest
    \/ OptJmpToJmp
    \/ OptJmpToHlt
    \/ OptJmpToNextLine

\* one instruction of the machine
NextRun ==
    \/ ExecINC
    \/ ExecDEC
    \/ ExecTST
    \/ ExecJMP
    \/ ExecHLT

Next ==
    \/ NextOpt
    \/ InterpBegin
    \/ InterpStep
    \/ CompileBegin
    \/ CompileLoop
    \/ Resolve
    \/ Allocate
    \/ RunBegin
    \/ NextRun
    \/ SourceBegin
    \/ SourceRun

Spec == Init /\ [][Next]_vars

\* the families of short programs, jump cycles among them
OptPrograms == SingleStatements \cup Branches \cup Loops \cup Jumps

\* the optimizer alone, which reads no register value; its loop is sequential
\* code that keeps running
InitOpt ==
    /\ Init
    /\ ast.registers = <<0, 0>>
    /\ ast.root.children \in OptPrograms

SpecOpt == InitOpt /\ [][NextOpt]_vars /\ WF_vars(NextOpt)

\* the programs of one direct assignment; a machine that is running executes
\* its next instruction
InitMov ==
    /\ Init
    /\ Len(ast.root.children) = 1
    /\ ast.root.children[1].typ = "ASSIGNMENT"
    /\ "DYNAMIC_ASSIGNMENT" \in ast.root.children[1].decorators

SpecMov == InitMov /\ [][Next]_vars /\ WF_vars(NextRun)

(***************************************************************************)
(* What the properties below observe.                                      *)
(***************************************************************************)
Initial(name) == ast.registers[ast.symbolTable[name] + 1]
Final(name) == m.regs[ast.symbolTable[name] + 1]

\* the machine ran the program and stopped; it stopped at HLT
Stopped == phase \in {"run", "reference"} /\ m.status # "running"
Halted == phase \in {"run", "reference"} /\ m.status = "halted"

(***************************************************************************)
(* C1: for every program built from a decorated tree, the generated        *)
(* program run on the register machine halts with the final user-register  *)
(* values of the direct interpretation of the source program.  The code    *)
(* breaks it: see SemanticEquivalence's violation.                         *)
(***************************************************************************)
SemanticEquivalence ==
    (phase = "reference" /\ src.status = "halted") =>
        /\ m.status = "halted"
        /\ \A name \in Names : Final(name) = src.regs[name]

(***************************************************************************)
(* C2: the symbolic code before and after the Optimizer, each interpreted  *)
(* with its own symbol table from the same initial registers, ends in the  *)
(* same register state, and the optimized code has stopped when the        *)
(* original has.                                                           *)
(***************************************************************************)
OptimizerPreservesSemantics ==
    phase = "interp" =>
        /\ irA.status # "running" => irB.status # "running"
        /\ (irA.status # "running" /\ irB.status # "running") =>
               /\ irA.status = irB.status
               /\ irA.regs = irB.regs
               /\ irA.help = irB.help

\* both runs halted on code the optimizer shortened, after changing a register
OptimizedRunHalted ==
    /\ phase = "interp"
    /\ irA.status = "halted"
    /\ irB.status = "halted"
    /\ Len(oc.instructions) < Len(ic.instructions)
    /\ \E name \in Names : irA.regs[name] # Initial(name)

(***************************************************************************)
(* C3: the optimizer's fixpoint loop terminates on every code whose jumps  *)
(* name declared labels, jump cycles and self-jumps included: the loop     *)
(* ends after a pass that left the instruction list unchanged.             *)
(***************************************************************************)
LabelsValid ==
    \A j \in 1..Len(ic.instructions) :
        ic.instructions[j].opcode \in JumpOpcodes =>
            ic.instructions[j].op1.val \in DOMAIN ic.symbolTable

OptimizerTerminates ==
    (phase = "optimize" /\ LabelsValid)
        ~> (phase = "optimized" /\ opt.old_instructions = oc.instructions)

\* the loop ended on a code holding a jump to itself or a cycle of two jumps
OptimizedJumpCycle ==
    /\ phase = "optimized"
    /\ \E j, k \in 1..Len(ic.instructions) :
           /\ j # k
           /\ ic.instructions[j].opcode = "jmp"
           /\ ic.instructions[k].opcode = "jmp"
           /\ ic.symbolTable[ic.instructions[j].op1.val] = k - 1
           /\ ic.symbolTable[ic.instructions[k].op1.val] = j - 1
    /\ \E j \in 1..Len(oc.instructions) :
           /\ oc.instructions[j].opcode = "jmp"
           /\ oc.symbolTable[oc.instructions[j].op1.val] = j - 1

(***************************************************************************)
(* C4: the Optimizer is idempotent: applied to its own result it returns   *)
(* the same instruction list and the same symbol table.                    *)
(***************************************************************************)
OptimizerIdempotent ==
    phase = "optimized" =>
        LET again == Optimizer(oc)
        IN /\ again.err = ""
           /\ again.o.instructions = oc.instructions
           /\ again.o.symbolTable = oc.symbolTable

\* the first application deleted two jumps, in two passes
OptimizedInTwoPasses ==
    /\ phase = "optimized"
    /\ Len(oc.instructions) + 2 = Len(ic.instructions)
    /\ OptimizerPass(ic).err = ""
    /\ OptimizerPass(ic).o.instructions # oc.instructions

(***************************************************************************)
(* Programs of one statement: the generated program is the expansion of    *)
(* the statement's instructions, then HLT.  A comparison's program is      *)
(* "if e1 <cmp> e2: halt": the expansion, the HLT control falls through    *)
(* to, and at the branch target the HLT of the if-block.                   *)
(***************************************************************************)
Statement == ast.root.children[1]

IsAssignment(op, deco) ==
    /\ Len(ast.root.children) = 1
    /\ Statement.typ = "ASSIGNMENT"
    /\ Statement.val = op
    /\ deco \in Statement.decorators

Dest == Statement.children[1].val
Source == Statement.children[2]

IsCompare ==
    /\ Len(ast.root.children) = 1
    /\ Statement.typ = "BRANCH"
    /\ Statement.children[2].children = <<HaltNode>>

Comparison == Statement.children[1]

\* the value of a comparison's operand before the run
OperandValue(node) == IF node.typ = "CONSTANT" THEN node.num ELSE Initial(node.val)

\* the line of the branch target, and the line after the expansion
BranchTarget == cg.labels[IfLabel(0)] + 1
FallThrough == BranchTarget - 1

\* the physical registers of the help registers
HelpSlots == (Len(ast.registers) + 1)..Len(m.regs)

(***************************************************************************)
(* C5: in the general comparison expansion (second operand not the         *)
(* constant 0), for each of jg, jge, jl, jle, je, jne and all values of    *)
(* the operands, control leaves the expansion at the branch target if and  *)
(* only if the relation holds between the operands' original values, and   *)
(* otherwise at the line after the expansion.  The code breaks it when     *)
(* both operands are the same register (C6): see the violation.            *)
(***************************************************************************)
GeneralCompare == IsCompare /\ Comparison.children[2] # ConstNode(0)

CompareDecides ==
    (GeneralCompare /\ Stopped) =>
        /\ m.status = "halted"
        /\ m.pc \in {BranchTarget, FallThrough}
        /\ m.pc = BranchTarget <=>
               Relation(BranchOpcode(Comparison.val),
                        OperandValue(Comparison.children[1]),
                        OperandValue(Comparison.children[2]))

(***************************************************************************)
(* C6: in the general comparison expansion with two plain register         *)
(* operands, on the taken path and on the fall-through path each operand   *)
(* register holds its original value when control leaves the expansion,    *)
(* the expansion uses exactly one help register, and that register holds   *)
(* 0 when control leaves.  The code breaks it: see the violation.          *)
(***************************************************************************)
RegisterCompare ==
    /\ GeneralCompare
    /\ Comparison.children[1].typ = "REGISTER"
    /\ Comparison.children[2].typ = "REGISTER"

CompareRestoresOperands ==
    (RegisterCompare /\ Halted) =>
        /\ \A name \in Names : Final(name) = Initial(name)
        /\ out.registerCount = Len(ast.registers) + 1
        /\ \A h \in HelpSlots : m.regs[h] = 0

(***************************************************************************)
(* C7: when the second operand of the comparison is the constant 0, the    *)
(* expansion uses no help register and leaves op1 unchanged, and control   *)
(* reaches the branch target exactly when op1 is non-zero (jg, jne),       *)
(* always (jge), when op1 is zero (jle, je).                               *)
(***************************************************************************)
ZeroCompare == IsCompare /\ Comparison.children[2] = ConstNode(0)

ZeroCompareTaken(opcode, v) ==
    CASE opcode \in {"jg", "jne"} -> v # 0
      [] opcode = "jge" -> TRUE
      [] opcode \in {"jle", "je"} -> v = 0
      [] OTHER -> FALSE

CompareWithZero ==
    (ZeroCompare /\ Stopped) =>
        /\ m.status = "halted"
        /\ out.registerCount = Len(ast.registers)
        /\ \A name \in Names : Final(name) = Initial(name)
        /\ m.pc \in {BranchTarget, FallThrough}
        /\ m.pc = BranchTarget <=>
               ZeroCompareTaken(BranchOpcode(Comparison.val),
                                OperandValue(Comparison.children[1]))

\* x <= 0 was decided with x = 0
ZeroCompareReached ==
    /\ ZeroCompare
    /\ Halted
    /\ Comparison.val = "<="
    /\ Comparison.children[1] = RegNode("x")
    /\ Initial("x") = 0
    /\ m.pc = BranchTarget

(***************************************************************************)
(* C8: for add dest, Register(src), dest and src the same register or not, *)
(* when control leaves the expansion dest holds its original value plus    *)
(* src's original value, src (a different register) holds its original     *)
(* value, and the expansion's help register holds 0.                       *)
(***************************************************************************)
AddRegister == IsAssignment("+=", "AUGMENTED_ASSIGNMENT") /\ Source.typ = "REGISTER"

AddTransfers ==
    (AddRegister /\ Stopped) =>
        /\ m.status = "halted"
        /\ Final(Dest) = Initial(Dest) + Initial(Source.val)
        /\ Source.val # Dest => Final(Source.val) = Initial(Source.val)
        /\ out.registerCount = Len(ast.registers) + 1
        /\ \A h \in HelpSlots : m.regs[h] = 0

\* x += x ran from x = 2
AddedToItself ==
    /\ AddRegister
    /\ Halted
    /\ Dest = "x"
    /\ Source.val = "x"
    /\ Initial("x") = 2
    /\ Final("x") = 4

(***************************************************************************)
(* C9: for mov dest, Register(src), dest and src the same register or not, *)
(* when control leaves the expansion dest holds src's original value and   *)
(* src holds its original value.  The code breaks it: see the violation.   *)
(***************************************************************************)
MovRegister == IsAssignment("=", "DYNAMIC_ASSIGNMENT") /\ Source.typ = "REGISTER"

MovConstant == IsAssignment("=", "DYNAMIC_ASSIGNMENT") /\ Source.typ = "CONSTANT"

\* TST dest; JMP @+2; JMP @+3; DEC dest; JMP @-4, then the final HLT
DrainingLoopOnly ==
    LET r == ast.symbolTable[Dest] + 1
    IN [j \in 1..Len(out.code) |-> <<out.code[j].opcode, out.code[j].num>>]
           = <<<<"TST", r>>, <<"JMP", 4>>, <<"JMP", 6>>, <<"DEC", r>>, <<"JMP", 1>>,
               <<"HLT", 0>>>>

MovConstantTerminates ==
    (MovConstant /\ phase = "run")
        ~> /\ Halted
           /\ Final(Dest) = Source.num
           /\ Source.num = 0 => DrainingLoopOnly

\* mov x, 0 ran from x = 0, and mov x, n from a larger x
MovedConstant ==
    /\ MovConstant
    /\ Halted
    /\ \/ Initial(Dest) = 0 /\ Source.num = 0
       \/ Initial(Dest) = MaxInit /\ Source.num = 1

(***************************************************************************)
(* C11: for sub dest, Register(src) with dest >= src before the run, dest  *)
(* and src the same register or not, when control leaves the expansion     *)
(* dest holds its original value minus src's original value, src (a        *)
(* different register) holds its original value, and the expansion's help  *)
(* register holds 0.  The code breaks it when dest and src are the same    *)
(* register: see the violation.                                            *)
(***************************************************************************)
SubRegister == IsAssignment("-=", "AUGMENTED_ASSIGNMENT") /\ Source.typ = "REGISTER"

SubTransfers ==
    (SubRegister /\ Initial(Dest) >= Initial(Source.val) /\ Stopped) =>
        /\ m.status = "halted"
        /\ Final(Dest) = Initial(Dest) - Initial(Source.val)
        /\ Source.val # Dest => Final(Source.val) = Initial(Source.val)
        /\ out.registerCount = Len(ast.registers) + 1
        /\ \A h \in HelpSlots : m.regs[h] = 0

(***************************************************************************)
(* What the properties about code generation observe: the generator has    *)
(* started on the optimized code, it has failed, it has returned.          *)
(***************************************************************************)
Generating == cg # Idle
GenerationFailed == phase = "error" /\ cg # Idle
Generated == phase \in {"compiled", "run", "reference"}

\* the symbolic code holds "cmp op1, Constant(0)" followed by jl
JlAgainstZero(o) ==
    \E j \in 1..(Len(o.instructions) - 1) :
        /\ o.instructions[j].opcode = "cmp"
        /\ o.instructions[j].op2 = Constant(0)
        /\ o.instructions[j + 1].opcode = "jl"

OnlyJlAgainstZeroFails == GenerationFailed => JlAgainstZero(oc)

(***************************************************************************)
(* What the properties about help registers observe.  Positions are the    *)
(* 0-based indices of bonInstructions; cg holds the code after address     *)
(* resolution and the concrete scope ends.                                 *)
(***************************************************************************)
\* the help-register ids with a recorded scope end, and the position
ScopedIds == {cg.helpRegisterScopes[j][1] : j \in 1..Len(cg.helpRegisterScopes)}

ScopeEnd(id) ==
    LET j == CHOOSE k \in 1..Len(cg.helpRegisterScopes) :
                 cg.helpRegisterScopes[k][1] = id
    IN cg.helpRegisterScopes[j][2]

\* the allocation pass after it has scanned the positions before i
ScannedBefore(i) ==
    AllocateRegisters(oc, [cg EXCEPT !.bonInstructions = SubSeq(@, 1, i)])

\* the ids that own a slot when the scan arrives at position i
InUseBefore(i) == ScannedBefore(i).helpRegistersInUse

\* a step of the machine from a line before position e to e or a line behind
Passes(e) ==
    /\ phase = "run"
    /\ m.status = "running"
    /\ m'.status = "running"
    /\ m.pc - 1 < e
    /\ m'.pc - 1 >= e

(***************************************************************************)
(* C14: whenever execution passes the concrete position recorded as a help *)
(* register's scope end, that help register holds 0, on the fall-through   *)
(* path and on the taken path of a comparison, and when a branch body      *)
(* leaves by goto.  The code breaks it: see the violation.                 *)
(***************************************************************************)
HelpRegisterZeroAtScopeEnd ==
    [][phase = "run" =>
           \A id \in ScopedIds :
               (Passes(ScopeEnd(id)) /\ id \in DOMAIN InUseBefore(ScopeEnd(id))) =>
                   m'.regs[InUseBefore(ScopeEnd(id))[id]] = 0]_vars

\* the positions at which the resolved code names a help-register id
UsesOf(id) ==
    {i \in 0..(Len(cg.bonInstructions) - 1) :
        cg.bonInstructions[i + 1].k = "H" /\ cg.bonInstructions[i + 1].num = id}

UsedIds ==
    {cg.bonInstructions[j].num :
        j \in {k \in 1..Len(cg.bonInstructions) : cg.bonInstructions[k].k = "H"}}

FirstUse(id) == CHOOSE i \in UsesOf(id) : \A j \in UsesOf(id) : i <= j

\* the live range of an id: from its first use to its recorded scope end (to
\* the end of the code when none is recorded)
LastLive(id) ==
    IF id \in ScopedIds THEN ScopeEnd(id) ELSE Len(cg.bonInstructions)

LiveAt(id, i) == FirstUse(id) <= i /\ i <= LastLive(id)

\* the physical register the output names where the code first uses the id
SlotOf(id) == out.code[FirstUse(id) + 1].num

(***************************************************************************)
(* C15: in the allocation pass two different help-register ids whose live  *)
(* ranges (first use up to recorded scope end) contain a common position   *)
(* get different physical registers, an id keeps its register throughout   *)
(* its live range, and every help register's number is greater than the    *)
(* number of user registers.                                               *)
(***************************************************************************)
LiveHelpRegistersDisjoint ==
    phase = "compiled" =>
        /\ \A h1, h2 \in UsedIds :
               (h1 # h2 /\ \E i \in 0..(Len(cg.bonInstructions) - 1) :
                               LiveAt(h1, i) /\ LiveAt(h2, i))
                   => SlotOf(h1) # SlotOf(h2)
        /\ \A h \in UsedIds : \A i \in UsesOf(h) :
               LiveAt(h, i) => out.code[i + 1].num = SlotOf(h)
        /\ \A h \in UsedIds : SlotOf(h) > Len(oc.registers)

\* three ids: two live together, the third in the register of the first
SlotReusedAfterRelease ==
    /\ phase = "compiled"
    /\ \E h1, h2, h3 \in UsedIds :
           /\ h1 # h2
           /\ \E i \in 0..(Len(cg.bonInstructions) - 1) : LiveAt(h1, i) /\ LiveAt(h2, i)
           /\ h3 # h1
           /\ SlotOf(h3) = SlotOf(h1)

\* the ids live at position i, and the most that are live at one position
LiveIds(i) == {h \in UsedIds : LiveAt(h, i)}

MaxLive ==
    LET counts == {Cardinality(LiveIds(i)) : i \in 0..(Len(cg.bonInstructions) - 1)}
    IN IF counts = {} THEN 0 ELSE CHOOSE n \in counts : \A k \in counts : k <= n

\* the physical help-register slots the allocation pass created
SlotsAllocated == out.registerCount - Len(oc.registers)

(***************************************************************************)
(* C16: the number of physical help-register slots allocated equals the    *)
(* greatest number of help-register ids live at one position of the        *)
(* concrete code; of two branches in sequence that each need one builder   *)
(* help register the second reuses the slot the first released.            *)
(***************************************************************************)
AllocationMinimal == phase = "compiled" => SlotsAllocated = MaxLive

\* the physical help registers the emitted instructions name
SlotsReferenced ==
    {out.code[j].num :
        j \in {k \in 1..Len(out.code) :
                  out.code[k].opcode \in {"INC", "DEC", "TST"}
                  /\ out.code[k].num > Len(oc.registers)}}

(***************************************************************************)
(* C17: the output lists the user registers' initial values and then one   *)
(* zero-valued register line for each physical help-register slot that was *)
(* allocated: the number of register lines is the user register count plus *)
(* the number of help slots the emitted instructions name.  The code       *)
(* breaks it: see the violation.                                           *)
(***************************************************************************)
RegisterLinesCoverSlots ==
    phase = "compiled" =>
        /\ SubSeq(out.registers, 1, Len(oc.registers)) = oc.registers
        /\ \A j \in (Len(oc.registers) + 1)..Len(out.registers) : out.registers[j] = 0
        /\ Len(out.registers) = out.registerCount
        /\ Len(out.registers) = Len(oc.registers) + Cardinality(SlotsReferenced)

RECURSIVE ExpansionStart(_, _)
\* the concrete position at which the main loop, continued from g, begins
\* the expansion of the symbolic instruction at index
ExpansionStart(g, index) ==
    IF g.head >= index \/ g.head >= Len(oc.instructions) \/ g.err # ""
    THEN Len(g.bonInstructions)
    ELSE ExpansionStart(CompileIteration(oc, g), index)

\* the main loop of compile() has ended and the addresses are to be resolved
MainLoopDone == phase = "compile" /\ cg.head >= Len(oc.instructions)

(***************************************************************************)
(* C18: after address resolution every JMP operand is an absolute 1-based  *)
(* line number of the concrete code: a relative operand @+n or @-n at the  *)
(* 0-based position i becomes i+n+1, a label becomes 1 plus the position   *)
(* at which the expansion of the instruction it points to begins, and      *)
(* every label a jump names has such a position.  The code breaks it when  *)
(* a cmp has lost its conditional jump (C28): see the violation.           *)
(***************************************************************************)
JumpsResolved ==
    MainLoopDone =>
        \A j \in 1..Len(cg.bonInstructions) :
            cg.bonInstructions[j].opcode = "JMP" =>
                /\ ResolveError(oc, cg, cg.bonInstructions[j]) = ""
                /\ LET before == cg.bonInstructions[j]
                       after == ResolveInstruction(oc, cg, j - 1, before)
                   IN /\ after.k = "abs"
                      /\ after.num \in 1..Len(cg.bonInstructions)
                      /\ before.k = "rel" => after.num = (j - 1) + before.num + 1
                      /\ before.k = "str" =>
                             after.num = 1 + ExpansionStart(CompileStart(oc),
                                                            oc.symbolTable[before.val])

\* every label of the symbol table of o refers to an index of the
\* instruction list of o or to its end
LabelIndicesValid(o) ==
    \A label \in DOMAIN o.symbolTable :
        IsLabel(label) => o.symbolTable[label] \in 0..Len(o.instructions)

(***************************************************************************)
(* C19: after the builder has finished and after every rule application of *)
(* the optimizer, every label of the symbol table maps to an index between *)
(* 0 and the length of the instruction list.                               *)
(***************************************************************************)
LabelsInRange ==
    /\ ic # Idle => LabelIndicesValid(ic)
    /\ oc # Idle => LabelIndicesValid(oc)

\* rule 3 has deleted a jump and moved a label that pointed at the hlt
\* ending the list
LabelMovedWithEnd ==
    /\ phase = "optimize"
    /\ opt.pc = "test"
    /\ Len(oc.instructions) < Len(ic.instructions)
    /\ \E label \in DOMAIN oc.symbolTable :
           /\ IsLabel(label)
           /\ ic.symbolTable[label] = Len(ic.instructions) - 1
           /\ oc.symbolTable[label] = Len(oc.instructions) - 1

\* the instruction list of o ends with hlt
EndsWithHlt(o) ==
    /\ Len(o.instructions) >= 1
    /\ o.instructions[Len(o.instructions)] = Instruction("hlt", None, None)

(***************************************************************************)
(* C20: the symbolic instruction list always ends with hlt: the builder    *)
(* appends one after traversing the tree, whatever the tree contains, and  *)
(* no optimizer rule removes or rewrites the final instruction.            *)
(***************************************************************************)
ListEndsWithHlt ==
    /\ ic # Idle => EndsWithHlt(ic)
    /\ oc # Idle => EndsWithHlt(oc)

\* the builder's list ended with a jump to the final hlt followed by that
\* hlt, and the optimizer has rewritten or deleted that jump
JumpBeforeEndOptimized ==
    /\ phase = "optimized"
    /\ Len(ic.instructions) >= 2
    /\ LET last == ic.instructions[Len(ic.instructions) - 1]
       IN /\ last.opcode \in JumpOpcodes
          /\ last.op1.val \in DOMAIN ic.symbolTable
          /\ ic.symbolTable[last.op1.val] = Len(ic.instructions) - 1
    /\ oc.instructions # ic.instructions

(***************************************************************************)
(* The DEC instructions of the loops in the generated program, recognised  *)
(* by the lines around them.                                               *)
(***************************************************************************)
\* line j of the generated program jumps to line t
JumpsTo(j, t) ==
    /\ j \in 1..Len(out.code)
    /\ out.code[j].opcode = "JMP"
    /\ out.code[j].num = t

\* line j of the generated program applies opcode to the register of line k
OnRegisterOf(j, opcode, k) ==
    /\ j \in 1..Len(out.code)
    /\ k \in 1..Len(out.code)
    /\ out.code[j].opcode = opcode
    /\ out.code[j].num = out.code[k].num

\* the DEC at line j is entered from "TST; JMP @+2; JMP": the DEC of the
\* zeroing loop, the DEC on the help register in the drain and restore
\* loops, the first DEC of the lockstep decrement
TestedDec(j) ==
    /\ j > 3
    /\ out.code[j - 3].opcode = "TST"
    /\ JumpsTo(j - 2, j)
    /\ out.code[j - 1].opcode = "JMP"

\* the second DEC of the lockstep decrement
LockstepSecond(j) ==
    /\ j > 9
    /\ out.code[j - 1].opcode = "DEC"
    /\ TestedDec(j - 1)
    /\ OnRegisterOf(j - 4, "TST", j)
    /\ JumpsTo(j + 2, j - 9)

\* the DEC on the source in the transfer loop of add and sub
TransferDec(j) ==
    /\ j > 9
    /\ OnRegisterOf(j - 9, "TST", j)
    /\ JumpsTo(j - 8, j)
    /\ JumpsTo(j + 2, j - 9)

\* the DEC on the destination in the drain loop of a sub whose destination
\* is its source
SameRegisterStep(j) ==
    /\ j > 6
    /\ out.code[j - 1].opcode = "DEC"
    /\ TestedDec(j - 1)
    /\ OnRegisterOf(j + 1, "INC", j)
    /\ JumpsTo(j + 2, j - 4)

LoopDec(j) ==
    TestedDec(j) \/ LockstepSecond(j) \/ TransferDec(j) \/ SameRegisterStep(j)

(***************************************************************************)
(* C21: in every execution of the zeroing loop, of the transfer and drain  *)
(* loops of add and sub with a register source, and of the lockstep and    *)
(* restore loops of the general comparison, a DEC on the source register,  *)
(* the help register or a comparison operand executes only when that       *)
(* register is not zero, also when destination and source are the same     *)
(* register.  The code breaks it for sub and cmp with the same register    *)
(* twice: see the violation.                                               *)
(***************************************************************************)
LoopDecOnNonZero ==
    (phase = "run" /\ m.status = "running" /\ Current.opcode = "DEC"
        /\ LoopDec(m.pc) /\ HasRegister(Current.num))
        => m.regs[Current.num] > 0

\* the lines a comment takes in the program text: one more than the line
\* feeds among its characters
LinesOf(chars) == 1 + Cardinality({j \in 1..Len(chars) : chars[j] = "\n"})

RECURSIVE LineCount(_)
LineCount(comments) ==
    IF comments = <<>> THEN 0
    ELSE LinesOf(Head(comments)) + LineCount(Tail(comments))

(***************************************************************************)
(* C22: the output contains max(10, c) comment lines, c being the number   *)
(* of recorded comments: one line per comment, followed by blank comment   *)
(* lines only when c < 10, so that there are never fewer than ten.         *)
(***************************************************************************)
CommentLinesPadded ==
    phase = "compiled" =>
        LET c == Len(oc.comments)
        IN /\ LineCount(out.comments) = IF c > 10 THEN c ELSE 10
           /\ Len(out.comments) = LineCount(out.comments)
           /\ \A j \in 1..c : out.comments[j] = oc.comments[j]
           /\ \A j \in (c + 1)..Len(out.comments) : out.comments[j] = <<>>

\* a program of more than ten docstrings was compiled
ElevenComments ==
    /\ phase = "compiled"
    /\ Len(oc.comments) > 10
    /\ Len(out.comments) = Len(oc.comments)

\* the lines of the generated program that hold opcode
LinesWith(opcode) ==
    {j \in 1..Len(out.code) : out.code[j].opcode = opcode}

DeletionFrame(o, o2, i) ==
    /\ Len(o2.instructions) = Len(o.instructions) - 1
    /\ \A j \in 1..Len(o2.instructions) :
           o2.instructions[j] = IF j <= i THEN o.instructions[j]
                                ELSE o.instructions[j + 1]
    /\ DOMAIN o2.symbolTable = DOMAIN o.symbolTable
    /\ \A name \in DOMAIN o.symbolTable :
           o2.symbolTable[name] =
               IF IsLabel(name) /\ o.symbolTable[name] > i
               THEN o.symbolTable[name] - 1
               ELSE o.symbolTable[name]
    /\ \A name \in DOMAIN o.symbolTable :
           (IsLabel(name) /\ o.symbolTable[name] < Len(o.instructions)) =>
               o2.instructions[o2.symbolTable[name] + 1] =
                   IF o.symbolTable[name] = i
                   THEN o.instructions[i + 2]
                   ELSE o.instructions[o.symbolTable[name] + 1]

RECURSIVE DeletionsFramed(_, _)
\* every deletion of the loop of optimizeJmpToNextLine, run from index i on
\* the code o, keeps the frame
DeletionsFramed(o, i) ==
    IF i >= Len(o.instructions) THEN TRUE
    ELSE LET r == JmpToNextLineStep(o, i)
         IN IF r.err # "" THEN TRUE
            ELSE /\ IF r.i = i THEN DeletionFrame(o, r.o, i) ELSE r.o = o
                 /\ DeletionsFramed(r.o, r.i)

\* rule 3 is the next rule the optimizer applies
BeforeJmpToNextLine == phase = "optimize" /\ opt.pc = "JmpToNextLine"

(***************************************************************************)
(* C24: when rule 3 deletes the jump at position i, the instruction list   *)
(* shrinks by exactly one, every label with an index greater than i is     *)
(* decremented by one, every label with an index of at most i and every    *)
(* identifier entry is unchanged, and each label denotes the instruction   *)
(* it denoted before (or the one that followed the deleted jump).          *)
(***************************************************************************)
JumpDeletionFrame == BeforeJmpToNextLine => DeletionsFramed(oc, 0)

\* rule 3 is about to delete a jump that a label points at, with another
\* label behind it
LabelledJumpDeleted ==
    /\ BeforeJmpToNextLine
    /\ \E i \in 0..(Len(oc.instructions) - 1) :
           /\ oc.instructions[i + 1].opcode \in JumpOpcodes
           /\ oc.instructions[i + 1].op1.val \in DOMAIN oc.symbolTable
           /\ oc.symbolTable[oc.instructions[i + 1].op1.val] = i + 1
           /\ \E name \in DOMAIN oc.symbolTable :
                  IsLabel(name) /\ oc.symbolTable[name] = i

\* rule 1 may have rewritten the instruction at j (1-based) of the list
\* before into the one of the list after: a jump whose target was a jmp
\* took that jmp's label
ChainRewrite(before, after, j) ==
    /\ before.instructions[j].opcode \in JumpOpcodes
    /\ after.instructions[j].opcode = before.instructions[j].opcode
    /\ after.instructions[j].op2 = before.instructions[j].op2
    /\ LET target == before.symbolTable[before.instructions[j].op1.val] + 1
       IN /\ before.instructions[target].opcode = "jmp"
          /\ after.instructions[j].op1 \in {before.instructions[target].op1,
                                            after.instructions[target].op1}

\* rule 2 may have rewritten the instruction at j: a jmp whose target is a
\* hlt became a hlt
HaltRewrite(before, after, j) ==
    /\ before.instructions[j].opcode = "jmp"
    /\ after.instructions[j] = Instruction("hlt", None, None)
    /\ after.instructions[before.symbolTable[before.instructions[j].op1.val] + 1]
           = Instruction("hlt", None, None)

\* rule 3 fires on the code o: some jump names the next index
Fires(o) ==
    \E i \in 0..(Len(o.instructions) - 1) :
        /\ o.instructions[i + 1].opcode \in JumpOpcodes
        /\ o.instructions[i + 1].op1.val \in DOMAIN o.symbolTable
        /\ o.symbolTable[o.instructions[i + 1].op1.val] = i + 1

\* what one rule application may do to the code
RuleFrame ==
    (phase = "optimize" /\ phase' = "optimize" /\ opt.pc # "test") =>
        /\ Len(oc'.instructions) <= Len(oc.instructions)
        /\ opt.pc \in {"JmpToJmp", "JmpToHlt"} =>
               /\ Len(oc'.instructions) = Len(oc.instructions)
               /\ oc'.symbolTable = oc.symbolTable
               /\ \A j \in 1..Len(oc.instructions) :
                      oc'.instructions[j] # oc.instructions[j] =>
                          IF opt.pc = "JmpToJmp" THEN ChainRewrite(oc, oc', j)
                          ELSE HaltRewrite(oc, oc', j)
        /\ (opt.pc = "JmpToNextLine" /\ Fires(oc)) =>
               Len(oc'.instructions) < Len(oc.instructions)
        /\ (opt.pc = "JmpToNextLine" /\ ~Fires(oc)) => oc' = oc

(***************************************************************************)
(* C25: across every optimizer pass the length of the instruction list     *)
(* never increases; rules 1 and 2 leave the length and the whole symbol    *)
(* table unchanged and alter only the instruction at the rewritten         *)
(* position; the length strictly decreases whenever rule 3 fires.          *)
(***************************************************************************)
OptimizerFrame == [][RuleFrame]_vars

\* rule 1 has rewritten a conditional jump in this pass, and rule 2 is next
ChainRewritten ==
    /\ phase = "optimize"
    /\ opt.pc = "JmpToHlt"
    /\ \E j \in 1..Len(oc.instructions) :
           /\ oc.instructions[j].opcode \in CondJumpOpcodes
           /\ oc.instructions[j] # opt.old_instructions[j]

RECURSIVE CountBranches(_)
RECURSIVE CountBranchesIn(_, _)
\* the BRANCH nodes among children[i..] and below them
CountBranchesIn(children, i) ==
    IF i > Len(children) THEN 0
    ELSE CountBranches(children[i]) + CountBranchesIn(children, i + 1)

\* the BRANCH nodes of the tree below node, node included
CountBranches(node) ==
    (IF node.typ = "BRANCH" THEN 1 ELSE 0) + CountBranchesIn(node.children, 1)

\* the lines (1-based) of the builder's list holding the conditional jump
\* to .IF_k, and those holding jmp .ENDIF_k
CondJumpsTo(k) ==
    {j \in 1..Len(ic.instructions) :
        /\ ic.instructions[j].opcode \in CondJumpOpcodes
        /\ ic.instructions[j].op1 = LabelRef(IfLabel(k))}

EndJumps(k) ==
    {j \in 1..Len(ic.instructions) :
        ic.instructions[j] = Instruction("jmp", LabelRef(EndifLabel(k)), None)}

\* the branch with id k has one cmp with its conditional jump, one jump to
\* its end behind it, and its two labels where the claim puts them
BranchShape(k) ==
    /\ Cardinality(CondJumpsTo(k)) = 1
    /\ Cardinality(EndJumps(k)) = 1
    /\ {IfLabel(k), EndifLabel(k)} \subseteq DOMAIN ic.symbolTable
    /\ \A c \in CondJumpsTo(k), e \in EndJumps(k) :
           /\ c > 1
           /\ ic.instructions[c - 1].opcode = "cmp"
           /\ c < e
           /\ ic.symbolTable[IfLabel(k)] = e
           /\ ic.symbolTable[EndifLabel(k)] >= e
           /\ ic.symbolTable[EndifLabel(k)] < Len(ic.instructions)

\* a builder that has given out ifCount branch ids and helpCount help
\* registers and has emitted nothing
BuilderAt(ifCount, helpCount) ==
    [instructions |-> <<>>,
     symbolTable |-> ast.symbolTable,
     registers |-> ast.registers,
     comments |-> <<>>,
     helpRegisterScopes |-> <<>>,
     helpRegisterCount |-> helpCount,
     ifCount |-> ifCount]

\* the first statement is a branch: the list the claim describes for it
FirstBranchCode ==
    LET cmp == Statement.children[1]
        b0 == BuilderAt(1, 0)
        op1 == getArithmeticOperand(b0, cmp.children[1])
        b1 == getArithmeticOperandState(b0, cmp.children[1])
        op2 == getArithmeticOperand(b1, cmp.children[2])
        b2 == getArithmeticOperandState(b1, cmp.children[2])
        elseB == traverseTree(BuilderAt(1, b2.helpRegisterCount), Statement.children[3])
        ifB == traverseTree(BuilderAt(elseB.ifCount, elseB.helpRegisterCount),
                            Statement.children[2])
    IN [operands |-> b2.instructions,
        cmp |-> Instruction("cmp", op1, op2),
        elseCode |-> elseB.instructions,
        ifCode |-> ifB.instructions]

(***************************************************************************)
(* C26: for a conditional branch with id k the builder emits, in this      *)
(* order, the code computing the operands, cmp, the conditional jump to    *)
(* .IF_k, the code of the else-branch, jmp .ENDIF_k and the code of the    *)
(* if-branch; .IF_k is the index right after jmp .ENDIF_k and .ENDIF_k the *)
(* index right after the code of the if-branch; the ids are given out in   *)
(* sequence, so that nested and successive branches share no label name.   *)
(***************************************************************************)
BranchLayout ==
    ic # Idle =>
        /\ ic.ifCount = CountBranches(ast.root)
        /\ \A k \in 0..(ic.ifCount - 1) : BranchShape(k)
        /\ (Len(ast.root.children) >= 1 /\ Statement.typ = "BRANCH") =>
               LET f == FirstBranchCode
                   expected == f.operands
                       \o <<f.cmp,
                            Instruction(BranchOpcode(Statement.children[1].val),
                                        LabelRef(IfLabel(0)), None)>>
                       \o f.elseCode
                       \o <<Instruction("jmp", LabelRef(EndifLabel(0)), None)>>
                       \o f.ifCode
               IN /\ Len(ic.instructions) > Len(expected)
                  /\ SubSeq(ic.instructions, 1, Len(expected)) = expected
                  /\ ic.symbolTable[IfLabel(0)] = Len(expected) - Len(f.ifCode)
                  /\ ic.symbolTable[EndifLabel(0)] = Len(expected)

\* the builder has finished a program with a branch in each block of its
\* first branch and a fourth branch behind it
NestedBuilt ==
    /\ phase = "optimize"
    /\ oc = ic
    /\ ic.ifCount = 4
    /\ ic.symbolTable[IfLabel(1)] < ic.symbolTable[IfLabel(0)]
    /\ ic.symbolTable[IfLabel(2)] > ic.symbolTable[IfLabel(0)]
    /\ ic.symbolTable[IfLabel(3)] > ic.symbolTable[EndifLabel(0)]

\* the program is one direct (dynamic) assignment
DirectAssignment == IsAssignment("=", "DYNAMIC_ASSIGNMENT")

\* its right-hand side is a sum of more than one term; it is one term, a
\* constant, a register or a negated one
ManyTerms == Source.typ = "ARITHMETIC_OPERATOR" /\ Len(Source.children) > 1
OneTerm == Source.typ \in {"CONSTANT", "REGISTER", "SIGN"}

\* the add or sub of one term of a sum into the help register h
TermInstruction(term, h) ==
    IF term.typ = "SIGN"
    THEN Instruction("sub", HelpRegister(h), NodeOperand(term.children[1]))
    ELSE Instruction("add", HelpRegister(h), NodeOperand(term))

(***************************************************************************)
(* C27: for a direct assignment whose right-hand side has more than one    *)
(* term the builder takes a help-register id not used before, emits one    *)
(* add (positive term) or sub (negative term) into it per term in order,   *)
(* then mov dest, H, then mov H, Constant(0), and records the index right  *)
(* after that reset as the end of H's scope; a right-hand side of a single *)
(* term emits only mov dest, term and takes no help register.  The code    *)
(* breaks it for a single negated term: see the violation.                 *)
(***************************************************************************)
DirectAssignmentCode ==
    (ic # Idle /\ DirectAssignment) =>
        /\ ManyTerms =>
               LET n == Len(Source.children)
               IN /\ ic.instructions =
                         [j \in 1..n |-> TermInstruction(Source.children[j], 0)]
                         \o <<Instruction("mov", Register(Dest), HelpRegister(0)),
                              Instruction("mov", HelpRegister(0), Constant(0)),
                              Instruction("hlt", None, None)>>
                  /\ ic.helpRegisterCount = 1
                  /\ ic.helpRegisterScopes = <<<<0, n + 2>>>>
        /\ OneTerm =>
               /\ Len(ic.instructions) = 2
               /\ ic.instructions[1].opcode = "mov"
               /\ ic.instructions[1].op1 = Register(Dest)
               /\ Source.typ # "SIGN" => ic.instructions[1].op2 = NodeOperand(Source)
               /\ ic.helpRegisterCount = 0
               /\ ic.helpRegisterScopes = <<>>

(***************************************************************************)
(* C28: in every code the optimizer returns, each cmp is immediately       *)
(* followed by one of the conditional jumps jg, jge, jl, jle, je, jne, as  *)
(* the code generator assumes when it consumes the instruction after a     *)
(* cmp; rule 3 never leaves a cmp without its jump.  The code breaks it    *)
(* when the else-branch of a comparison emits no instruction and the       *)
(* if-branch none either: see the violation.                               *)
(***************************************************************************)
CmpKeepsItsJump ==
    phase = "optimized" =>
        \A k \in 1..Len(oc.instructions) :
            oc.instructions[k].opcode = "cmp" =>
                /\ k < Len(oc.instructions)
                /\ oc.instructions[k + 1].opcode \in CondJumpOpcodes

\* the indices (0-based) of the instructions of o that reset the builder's
\* help register h
ResetsOf(o, h) ==
    {i \in 0..(Len(o.instructions) - 1) :
        o.instructions[i + 1] = Instruction("mov", HelpRegister(h), Constant(0))}

\* the recorded scope end of every help register of the builder is the
\* index right after its last reset in the list of o
ScopeEndsAfterReset(o) ==
    \A j \in 1..Len(o.helpRegisterScopes) :
        LET h == o.helpRegisterScopes[j][1]
            end == o.helpRegisterScopes[j][2]
        IN /\ ResetsOf(o, h) # {}
           /\ \A i \in ResetsOf(o, h) : i < end
           /\ end - 1 \in ResetsOf(o, h)

\* the replay of the generator has closed the scope of every help register
\* of the builder at the position right after the expansion of its reset
ScopesClosedAfterReset ==
    \A j \in 1..Len(oc.helpRegisterScopes) :
        LET h == oc.helpRegisterScopes[j][1]
        IN \A i \in ResetsOf(oc, h) :
               (\A i2 \in ResetsOf(oc, h) : i2 <= i) =>
                   \E q \in 1..Len(cg.helpRegisterScopes) :
                       /\ cg.helpRegisterScopes[q][1] = h
                       /\ cg.helpRegisterScopes[q][2] =
                              ExpansionStart(CompileStart(oc), i + 1)

(***************************************************************************)
(* C29: after optimization the recorded scope end of each help register of *)
(* the builder still is the index right after that register's last reset   *)
(* (mov H, Constant(0)) in the optimized list, so that the generator's     *)
(* replay closes the scope at the concrete position right after the        *)
(* expansion of that reset; deletions by rule 3 before that index do not   *)
(* leave it stale.  The code breaks it: see the violation.                 *)
(***************************************************************************)
ScopeEndsFollowDeletions ==
    /\ phase = "optimized" => ScopeEndsAfterReset(oc)
    /\ (phase = "allocate" /\ ScopeEndsAfterReset(oc)) => ScopesClosedAfterReset

\* the ids that own a slot after the scan has handled position i
InUseAfter(i) == DOMAIN ScannedBefore(i + 1).helpRegistersInUse

\* the scan releases the slot of id when it handles the position recorded
\* as the end of its scope, and id owns no slot afterwards
ReleasedAtScopeEnd(id) ==
    /\ ScopeEnd(id) < Len(cg.bonInstructions)
    /\ id \in DOMAIN AllocateOperand(ScannedBefore(ScopeEnd(id)), id).helpRegistersInUse
    /\ \A i \in ScopeEnd(id)..(Len(cg.bonInstructions) - 1) : id \notin InUseAfter(i)

(***************************************************************************)
(* C30: in the allocation pass every help-register id with a recorded      *)
(* scope end has its slot released exactly once, when the scan reaches     *)
(* that position, and no release is skipped: no two ids share a concrete   *)
(* scope-end position, and when the scan has finished no id is assigned a  *)
(* slot (every allocated slot is in the free list).  The code breaks it:   *)
(* see the violation.                                                      *)
(***************************************************************************)
EveryScopeReleased ==
    phase = "compiled" =>
        /\ \A id \in ScopedIds : ReleasedAtScopeEnd(id)
        /\ \A id1, id2 \in ScopedIds : id1 # id2 => ScopeEnd(id1) # ScopeEnd(id2)
        /\ DOMAIN out.helpRegistersInUse = {}
        /\ {out.freeHelpRegisters[j] : j \in 1..Len(out.freeHelpRegisters)}
               = (Len(oc.registers) + 1)..out.registerCount
        /\ Len(out.freeHelpRegisters) = out.registerCount - Len(oc.registers)
=============================================================================
